---- MODULE Spec2Model ----
(***************************************************************************)
(* Model of script.js of tada-app: the task list (the children of          *)
(* #list-container), the sub-steps of each task, the per-element timers    *)
(* (setInterval handles), the completed/uncompleted counters and the       *)
(* snapshot kept in localStorage under TASKS_STORAGE_KEY.                  *)
(*                                                                         *)
(* Encoding of DOM strings:                                                *)
(*   - a dataset value that is "" or a decimal number is a sequence:       *)
(*     <<>> is the empty (or missing) string, <<n>> is String(n);          *)
(*   - 'true' / 'false' dataset values are the strings "true" / "false";   *)
(*   - a task id 'task-n' is <<"task", n>>, 'substep-n' is                 *)
(*     <<"substep", n>>, a missing id is <<>>;                             *)
(*   - an element carries `tickers`, the live setInterval registrations     *)
(*     whose callback closes over it; `timerInterval` is el._timerInterval, *)
(*     0 for undefined/null, else the handle (the id of a ticker);          *)
(*   - dataset.id, 'task-' + Date.now() + '-' + random, is the triple       *)
(*     <<"task", "now", "random">>: no operation compares two of them, so   *)
(*     the digits are not followed, only the shape of the string;           *)
(*   - a date 'YYYY-MM-DD' is <<d>>, d the number of its day.               *)
(***************************************************************************)
EXTENDS Integers, Sequences, FiniteSets, TLC

VARIABLES
    list,               \* children of #list-container, in DOM order
    taskIdCounter,      \* let taskIdCounter
    detached,           \* live intervals whose element left the document
    completedCounter,   \* text of #completed-counter
    uncompletedCounter, \* text of #uncompleted-counter
    storage,            \* localStorage[TASKS_STORAGE_KEY]: <<>> or <<array>>
    matrix,             \* the items of the four .matrix-task-list, by quadrant
    pendingPasteText,   \* let pendingPasteText
    toasts,             \* the .smart-paste-toast elements that are in the body
                        \* or have their setTimeout pending, oldest first
    lastOp              \* the handler that ran last

vars == <<list, taskIdCounter, detached, completedCounter, uncompletedCounter,
          storage, matrix, pendingPasteText, toasts, lastOp>>

\* what the paste handler and the prompt it shows keep
pasteVars == <<pendingPasteText, toasts>>

\* ------------------------------------------------------------------ bounds
\* elements (tasks and sub-steps) in the list
MaxNodes == 2
\* values taskIdCounter takes within one page session
MaxId == 2
\* seconds a timer is followed for
MaxTicks == 2

\* ------------------------------------------------------- program constants
\* the period of the timer interval and the amount its callback adds
TickMs == 1000

\* Texts the user can type into the task box, the sub-step box and the editor.
InputTexts == {"", " ", "a"}

\* ------------------------------------------------------------- JS helpers
\* x || dflt for a string encoded as a sequence
OrElse(x, dflt) == IF x = <<>> THEN dflt ELSE x

\* x || dflt for a plain string
OrElseStr(x, dflt) == IF x = "" THEN dflt ELSE x

\* String(n)
Str(n) == <<n>>

\* parseInt(s, 10) of a decimal string (never called on "" here: callers use || '0')
parseInt(s) == s[1]

\* s.trim(): the texts of the model hold no surrounding blanks
trim_none(s) == s

\* the white space String.prototype.trim removes from the start and from the
\* end of the strings the model draws its lines and its inputs from
trimStart(s) ==
    CASE s = " " -> ""
      [] s = " x" -> "x"
      [] s = " 1. a" -> "1. a"
      [] OTHER -> s

trimEnd(s) ==
    CASE s = " " -> ""
      [] s = "1. " -> "1."
      [] OTHER -> s

trim(s) == trimEnd(trimStart(s))

Range(s) == {s[i] : i \in DOMAIN s}

RemoveAt(s, i) == [k \in 1..(Len(s) - 1) |-> IF k < i THEN s[k] ELSE s[k + 1]]

RECURSIVE SumSeq(_)
SumSeq(s) == IF s = <<>> THEN 0 ELSE Head(s) + SumSeq(Tail(s))

RECURSIVE Flatten(_)
Flatten(ss) == IF ss = <<>> THEN <<>> ELSE Head(ss) \o Flatten(Tail(ss))

\* ------------------------------------------------------------ DOM queries
\* every task and sub-step element under #list-container
Elements(l) ==
    Range(l) \cup UNION {Range(l[i].substeps) : i \in DOMAIN l}

NodeCount(l) == Len(l) + SumSeq([i \in DOMAIN l |-> Len(l[i].substeps)])

\* setInterval's return value: a handle no live interval of the element has
NewHandle(tickers) ==
    CHOOSE k \in 1..(Len(tickers) + 1) :
        /\ k \notin {tickers[x].id : x \in DOMAIN tickers}
        /\ \A m \in 1..(k - 1) : m \in {tickers[x].id : x \in DOMAIN tickers}

\* ------------------------------------------------------- element creation
\* createSubstepElement(text): dataset.elapsedMs = '0', no id yet, unchecked
createSubstepElement(text) ==
    [substepId |-> <<>>, text |-> text, completed |-> FALSE,
     checked |-> FALSE, etaMin |-> <<>>, elapsedMs |-> Str(0),
     timerRunning |-> "", timerInterval |-> 0, tickers |-> <<>>]

\* createTaskElement(taskText, priority, deadline)
createTaskElement(taskText, priority, deadline) ==
    [id |-> <<"task", "now", "random">>,
     taskId |-> <<>>, text |-> taskText, desc |-> <<>>,
     priority |-> priority, deadline |-> deadline, etaMin |-> <<>>,
     completed |-> FALSE, checked |-> FALSE,
     isUrgent |-> "false", isImportant |-> "false", matrixTouched |-> "false",
     urgentChecked |-> FALSE, importantChecked |-> FALSE,
     elapsedMs |-> Str(0), timerRunning |-> "", timerInterval |-> 0,
     tickers |-> <<>>, collapsed |-> FALSE, substeps |-> <<>>, editors |-> <<>>]

\* ------------------------------------------------------- summary, counters
CompletedSubsteps(t) == Cardinality({j \in DOMAIN t.substeps : t.substeps[j].completed})

\* updateSubstepSummary(parentLi): the class 'completed' and the checkbox of the
\* parent follow the sub-steps; with no sub-step the else branch is taken
updateSubstepSummary(t) ==
    LET total == Len(t.substeps)
        completed == CompletedSubsteps(t)
    IN  IF completed > 0 /\ completed = total
        THEN [t EXCEPT !.completed = TRUE, !.checked = TRUE]
        ELSE [t EXCEPT !.completed = FALSE, !.checked = FALSE]

Max(a, b) == IF a >= b THEN a ELSE b

updateCounters_allLi(l) ==
    LET totalTasks == Len(l)
        completedTasks == Cardinality({i \in DOMAIN l : l[i].completed})
                          + SumSeq([i \in DOMAIN l |-> CompletedSubsteps(l[i])])
    IN  [completed |-> completedTasks,
         uncompleted |-> Max(0, totalTasks - completedTasks)]

\* updateCounters(): the two counts, over ':scope > li' only
updateCounters(l) ==
    LET totalTasks == Len(l)
        completedTasks == Cardinality({i \in DOMAIN l : l[i].completed})
    IN  [completed |-> completedTasks,
         uncompleted |-> Max(0, totalTasks - completedTasks)]

\* ------------------------------------------------------------------ timers
\* A ticker is one setInterval registration: `id` is the handle, `elapsed` the
\* local variable its callback captured; `start` is the value parsed when the
\* timer was started and `ticks` the number of times the callback has run.
startTimer_noGuard(el) ==
    LET elapsed == parseInt(OrElse(el.elapsedMs, Str(0)))
        h == NewHandle(el.tickers)
    IN  [el EXCEPT !.tickers = Append(@, [id |-> h, elapsed |-> elapsed,
                                           start |-> elapsed, ticks |-> 0]),
                   !.timerInterval = h,
                   !.timerRunning = "true"]

\* startTimer(el, card)
startTimer(el) ==
    IF el.timerInterval # 0
    THEN el
    ELSE LET elapsed == parseInt(OrElse(el.elapsedMs, Str(0)))
             h == NewHandle(el.tickers)
         IN  [el EXCEPT !.tickers = Append(@, [id |-> h, elapsed |-> elapsed,
                                                start |-> elapsed, ticks |-> 0]),
                        !.timerInterval = h,
                        !.timerRunning = "true"]

\* clearInterval(h) on the tickers of an element
clearInterval(tickers, h) == SelectSeq(tickers, LAMBDA x : x.id # h)

pauseTimer_flagOnly(el) == [el EXCEPT !.timerRunning = "false"]

\* pauseTimer(el, card)
pauseTimer(el) ==
    LET e1 == IF el.timerInterval # 0
              THEN [el EXCEPT !.tickers = clearInterval(@, el.timerInterval),
                              !.timerInterval = 0]
              ELSE el
    IN  [e1 EXCEPT !.timerRunning = "false"]

resetTimer_noPause(el) == [el EXCEPT !.elapsedMs = Str(0)]

\* resetTimer(el, card)
resetTimer(el) == [pauseTimer(el) EXCEPT !.elapsedMs = Str(0)]

\* the callback of the x-th ticker of el runs once:
\* elapsed += 1000; el.dataset.elapsedMs = String(elapsed)
timerCallback(el, x) ==
    LET elapsed == el.tickers[x].elapsed + TickMs
    IN  [el EXCEPT !.tickers[x].elapsed = elapsed,
                   !.tickers[x].ticks = @ + 1,
                   !.elapsedMs = Str(elapsed)]

\* if (s._timerInterval) { clearInterval(s._timerInterval); s._timerInterval = null; }
stopOwnTimer(el) ==
    IF el.timerInterval # 0
    THEN [el EXCEPT !.tickers = clearInterval(@, el.timerInterval), !.timerInterval = 0]
    ELSE el

stopTimersOfTask_parentOnly(li) == stopOwnTimer(li)

\* the delete handler of a task, before li.remove(): the timers of the sub-steps
\* and of the task are stopped
stopTimersOfTask(li) ==
    [stopOwnTimer(li) EXCEPT !.substeps =
        [j \in DOMAIN li.substeps |-> stopOwnTimer(li.substeps[j])]]

\* the intervals still registered for a task element and its sub-steps
TickersOfTask(li) ==
    li.tickers \o Flatten([j \in DOMAIN li.substeps |-> li.substeps[j].tickers])

\* ------------------------------------------------------------- persistence
serializeSubstep(subLi) ==
    [id |-> OrElse(subLi.substepId, <<>>),
     text |-> OrElseStr(subLi.text, ""),
     completed |-> subLi.completed,
     etaMin |-> OrElse(subLi.etaMin, <<>>),
     elapsedMs |-> OrElse(subLi.elapsedMs, Str(0))]

serializeTask(li) ==
    [id |-> OrElse(li.taskId, <<>>),
     text |-> OrElseStr(li.text, ""),
     desc |-> OrElse(li.desc, <<>>),
     deadline |-> OrElse(li.deadline, <<>>),
     etaMin |-> OrElse(li.etaMin, <<>>),
     completed |-> li.completed,
     isUrgent |-> OrElseStr(li.isUrgent, "false"),
     isImportant |-> OrElseStr(li.isImportant, "false"),
     elapsedMs |-> OrElse(li.elapsedMs, Str(0)),
     collapsed |-> li.collapsed,
     substeps |-> [j \in DOMAIN li.substeps |-> serializeSubstep(li.substeps[j])]]

\* the array saveTasks() writes with localStorage.setItem
saveTasks(l) == <<[i \in DOMAIN l |-> serializeTask(l[i])]>>

loadSubstep_noElapsed(sub) ==
    LET s0 == createSubstepElement(OrElseStr(sub.text, ""))
        s1 == IF sub.id # <<>> THEN [s0 EXCEPT !.substepId = sub.id] ELSE s0
        s3 == IF sub.etaMin # <<>> THEN [s1 EXCEPT !.etaMin = sub.etaMin] ELSE s1
    IN  IF sub.completed THEN [s3 EXCEPT !.completed = TRUE, !.checked = TRUE] ELSE s3

\* one sub-step of loadTasks: createSubstepElement, then the restores
loadSubstep(sub) ==
    LET s0 == createSubstepElement(OrElseStr(sub.text, ""))
        s1 == IF sub.id # <<>> THEN [s0 EXCEPT !.substepId = sub.id] ELSE s0
        s2 == [s1 EXCEPT !.elapsedMs = OrElse(sub.elapsedMs, Str(0))]
        s3 == IF sub.etaMin # <<>> THEN [s2 EXCEPT !.etaMin = sub.etaMin] ELSE s2
    IN  IF sub.completed THEN [s3 EXCEPT !.completed = TRUE, !.checked = TRUE] ELSE s3

\* the part of attachTaskEventHandlers(li) that changes state: the summary is
\* recomputed, then an element without a task id gets 'task-' + taskIdCounter++
attachTaskEventHandlers(li, counter) ==
    LET t == updateSubstepSummary(li)
    IN  IF t.taskId = <<>>
        THEN [li |-> [t EXCEPT !.taskId = <<"task", counter>>], counter |-> counter + 1]
        ELSE [li |-> t, counter |-> counter]

\* JSON null as an element of a stored array: a value with no property at all
IsNull(x) == DOMAIN x = {}

\* what reading a property the stored object lacks is taken as by the `||` and
\* the `if` that follow every read in loadTasks: undefined counts as the empty
\* string, as false, as no array
Undefined(f) ==
    IF f \in {"text", "isUrgent", "isImportant"} THEN ""
    ELSE IF f \in {"completed", "collapsed"} THEN FALSE
    ELSE <<>>

SubstepFields == {"id", "text", "completed", "etaMin", "elapsedMs"}

TaskFields == {"id", "text", "desc", "deadline", "etaMin", "completed", "isUrgent",
               "isImportant", "elapsedMs", "collapsed", "substeps"}

\* the properties loadTasks reads from a stored sub-step and from a stored task;
\* any other property of the object is never read
readSubstep(sub) ==
    [f \in SubstepFields |-> IF f \in DOMAIN sub THEN sub[f] ELSE Undefined(f)]

readTask(task) ==
    [f \in TaskFields |-> IF f \in DOMAIN task THEN task[f] ELSE Undefined(f)]

\* one task of loadTasks (the body of tasks.forEach); threw: a sub-step that is
\* null stopped the body with a TypeError before listContainer.appendChild(li)
loadTask(stored, counter) ==
    LET task == readTask(stored)
        t0 == createTaskElement(OrElseStr(task.text, "Untitled"), "medium",
                                OrElse(task.deadline, <<>>))
        t1 == IF task.id # <<>> THEN [t0 EXCEPT !.taskId = task.id] ELSE t0
        t2 == [t1 EXCEPT !.isUrgent = OrElseStr(task.isUrgent, "false"),
                         !.isImportant = OrElseStr(task.isImportant, "false"),
                         !.elapsedMs = OrElse(task.elapsedMs, Str(0)),
                         !.desc = OrElse(task.desc, <<>>)]
        t3 == IF task.etaMin # <<>> THEN [t2 EXCEPT !.etaMin = task.etaMin] ELSE t2
        t4 == IF task.completed THEN [t3 EXCEPT !.completed = TRUE, !.checked = TRUE] ELSE t3
        t5 == IF task.collapsed THEN [t4 EXCEPT !.collapsed = TRUE] ELSE t4
        a  == attachTaskEventHandlers(t5, counter)
        threw == \E j \in DOMAIN task.substeps : IsNull(task.substeps[j])
        t6 == IF threw THEN a.li
              ELSE [a.li EXCEPT !.substeps =
                      [j \in DOMAIN task.substeps |->
                          loadSubstep(readSubstep(task.substeps[j]))]]
    IN  [li |-> updateSubstepSummary(t6), counter |-> a.counter, threw |-> threw]

\* tasks.forEach of loadTasks, from record k on; acc = [list, counter]. A null
\* element, or a null sub-step, throws a TypeError: forEach stops there and the
\* catch of loadTasks ignores the error, the tasks appended so far staying
RECURSIVE loadFrom(_, _, _)
loadFrom(tasks, k, acc) ==
    IF k > Len(tasks) THEN acc
    ELSE IF IsNull(tasks[k]) THEN acc
    ELSE LET r == loadTask(tasks[k], acc.counter)
         IN  IF r.threw THEN [list |-> acc.list, counter |-> r.counter]
             ELSE loadFrom(tasks, k + 1,
                           [list |-> Append(acc.list, r.li), counter |-> r.counter])

\* The stored item: <<>> when there is none, <<array>> for the text of an array,
\* <<text, "SyntaxError">> for a text JSON.parse rejects and
\* <<text, "object", "parsed">> for the text of a value that is not an array.
ParseThrows(raw) == Len(raw) = 2

IsArray(raw) == Len(raw) = 1

\* loadTasks() on a page whose list is `l`: nothing stored, nothing done; a
\* SyntaxError is caught; a value that is not an array returns early
loadTasks(raw, l, counter) ==
    IF raw = <<>> THEN [list |-> l, counter |-> counter]
    ELSE IF ParseThrows(raw) THEN [list |-> l, counter |-> counter]
    ELSE IF ~IsArray(raw) THEN [list |-> l, counter |-> counter]
    ELSE loadFrom(raw[1], 1, [list |-> <<>>, counter |-> counter])

\* ----------------------------------------------------------------- sorting
\* items.sort(cmp) is a stable sort (ECMAScript 2019): insertion of each index,
\* in order, before the first kept index it compares below. c[i][j] is the sign
\* of cmp(items[i], items[j]); a NaN result counts as 0.
InsertIdx_beforeEqual(sorted, x, c) ==
    LET before == {k \in DOMAIN sorted : c[x][sorted[k]] <= 0}
        pos == IF before = {} THEN Len(sorted) + 1
               ELSE CHOOSE k \in before : \A m \in before : k <= m
    IN  SubSeq(sorted, 1, pos - 1) \o <<x>> \o SubSeq(sorted, pos, Len(sorted))

InsertIdx(sorted, x, c) ==
    LET before == {k \in DOMAIN sorted : c[x][sorted[k]] < 0}
        pos == IF before = {} THEN Len(sorted) + 1
               ELSE CHOOSE k \in before : \A m \in before : k <= m
    IN  SubSeq(sorted, 1, pos - 1) \o <<x>> \o SubSeq(sorted, pos, Len(sorted))

RECURSIVE SortIdx(_, _, _)
SortIdx(n, k, c) ==
    IF k = 0 THEN <<>> ELSE InsertIdx(SortIdx(n, k - 1, c), k, c)

StableSort(l, c) ==
    LET idx == SortIdx(Len(l), Len(l), c) IN [k \in DOMAIN l |-> l[idx[k]]]

getPriorityScore_swapped(isUrgent, isImportant) ==
    IF isUrgent /\ isImportant THEN 4
    ELSE IF ~isUrgent /\ isImportant THEN 2
    ELSE IF isUrgent /\ ~isImportant THEN 3
    ELSE 1

getPriorityScore(isUrgent, isImportant) ==
    IF isUrgent /\ isImportant THEN 4
    ELSE IF ~isUrgent /\ isImportant THEN 3
    ELSE IF isUrgent /\ ~isImportant THEN 2
    ELSE 1

\* the score sortTasks gives an element: isImportant is read with !== 'false'
TaskScore(a) == getPriorityScore(a.isUrgent = "true", a.isImportant # "false")

\* the list after sortTasks(): score descending
sortTasks(l) ==
    StableSort(l, [i \in DOMAIN l |-> [j \in DOMAIN l |->
                      TaskScore(l[j]) - TaskScore(l[i])]])

PriorityOrder_ascending(p) == IF p = "high" THEN 1 ELSE IF p = "medium" THEN 2 ELSE 3

PriorityOrder(p) == IF p = "high" THEN 3 ELSE IF p = "medium" THEN 2 ELSE 1

DeadlineDiff_noneFirst(a, b) ==
    IF a.deadline = <<>> /\ b.deadline = <<>> THEN 0
    ELSE IF a.deadline = <<>> THEN -1
    ELSE IF b.deadline = <<>> THEN 1
    ELSE parseInt(a.deadline) - parseInt(b.deadline)

\* da - db of the two sorts by deadline: a missing deadline is Infinity, and
\* Infinity - Infinity is NaN, which sort() takes as 0
DeadlineDiff(a, b) ==
    IF a.deadline = <<>> /\ b.deadline = <<>> THEN 0
    ELSE IF a.deadline = <<>> THEN 1
    ELSE IF b.deadline = <<>> THEN -1
    ELSE parseInt(a.deadline) - parseInt(b.deadline)

\* the list after sortByUrgency(): priority weight descending, then deadline
sortByUrgency(l) ==
    StableSort(l, [i \in DOMAIN l |-> [j \in DOMAIN l |->
                      IF PriorityOrder(l[j].priority) # PriorityOrder(l[i].priority)
                      THEN PriorityOrder(l[j].priority) - PriorityOrder(l[i].priority)
                      ELSE DeadlineDiff(l[i], l[j])]])

sortByDeadline_rebuild(l) ==
    LET s == StableSort(l, [i \in DOMAIN l |-> [j \in DOMAIN l |-> DeadlineDiff(l[i], l[j])]])
    IN  [k \in DOMAIN s |-> loadTask(serializeTask(s[k]), 0).li]

\* the list after sortByDeadline()
sortByDeadline(l) ==
    StableSort(l, [i \in DOMAIN l |-> [j \in DOMAIN l |-> DeadlineDiff(l[i], l[j])]])

moveCompletedTaskToBottom_first(l, i) == <<l[i]>> \o RemoveAt(l, i)

\* moveCompletedTaskToBottom(taskLi): listContainer.appendChild(taskLi)
moveCompletedTaskToBottom(l, i) == Append(RemoveAt(l, i), l[i])

\* ------------------------------------------------------------------ matrix
Quadrants == {"do-first", "schedule", "delegate", "eliminate"}

targetCell_swapped(task) ==
    LET isImportant == task.isImportant # "false"
        isUrgent == task.isUrgent = "true"
    IN  IF isUrgent /\ isImportant THEN "do-first"
        ELSE IF ~isUrgent /\ isImportant THEN "delegate"
        ELSE IF isUrgent /\ ~isImportant THEN "schedule"
        ELSE "eliminate"

\* the cell renderMatrixView() picks for a task
targetCell(task) ==
    LET isImportant == task.isImportant # "false"
        isUrgent == task.isUrgent = "true"
    IN  IF isUrgent /\ isImportant THEN "do-first"
        ELSE IF ~isUrgent /\ isImportant THEN "schedule"
        ELSE IF isUrgent /\ ~isImportant THEN "delegate"
        ELSE "eliminate"

\* createMatrixTaskItem(taskLi): an li that holds the text of the task
createMatrixTaskItem(taskLi) == OrElseStr(taskLi.text, "Untitled")

\* the four lists renderMatrixView() builds from the tasks of `l`, in order
renderMatrixView(l) ==
    [q \in Quadrants |->
        LET mine == SelectSeq(l, LAMBDA task : targetCell(task) = q)
        IN  [k \in DOMAIN mine |-> createMatrixTaskItem(mine[k])]]

\* ---------------------------------------------------------------- handlers
\* Each handler is the list it leaves.

taskCheckboxClick_pauses(l, i) ==
    LET checked == ~l[i].checked
        l1 == [l EXCEPT ![i] = pauseTimer([@ EXCEPT !.checked = checked,
                                                    !.completed = checked])]
    IN  IF checked THEN moveCompletedTaskToBottom(l1, i) ELSE l1

\* click on .task-checkbox of task i (the browser has flipped checkbox.checked)
taskCheckboxClick(l, i) ==
    LET checked == ~l[i].checked
        l1 == [l EXCEPT ![i].checked = checked, ![i].completed = checked]
    IN  IF checked THEN moveCompletedTaskToBottom(l1, i) ELSE l1

\* finish(true) of startInlineEdit on task i with a non-empty trimmed value
inlineEditFinish(l, i, val) ==
    [l EXCEPT ![i].text = val, ![i].completed = FALSE, ![i].checked = FALSE]

\* addSubFromInput() of task i with a non-empty trimmed text
addSubFromInput(l, i, text, counter) ==
    LET s == [createSubstepElement(text) EXCEPT !.substepId = <<"substep", counter>>]
        t == [l[i] EXCEPT !.substeps = Append(@, s)]
    IN  [l EXCEPT ![i] = updateSubstepSummary(t)]

\* click on .substep-checkbox of sub-step j of task i
substepCheckboxClick(l, i, j) ==
    LET checked == ~l[i].substeps[j].checked
        t == [l[i] EXCEPT !.substeps[j].checked = checked,
                          !.substeps[j].completed = checked]
    IN  [l EXCEPT ![i] = updateSubstepSummary(t)]

\* click on .delete-substep-btn of sub-step j of task i: the list that is left,
\* the sub-step still in place with the tickers the handler did not clear
substepDeleteStop(l, i, j) == [l EXCEPT ![i].substeps[j] = stopOwnTimer(@)]

substepDeleteClick(l, i, j) ==
    [l EXCEPT ![i] = updateSubstepSummary([l[i] EXCEPT !.substeps = RemoveAt(@, j)])]

\* click on .timer-start-btn, .timer-pause-btn, .timer-reset-btn of task i
taskStartClick(l, i) == [l EXCEPT ![i] = startTimer(@)]

taskPauseClick_all(l, i) ==
    [k \in DOMAIN l |->
        [pauseTimer(l[k]) EXCEPT !.substeps =
            [j \in DOMAIN l[k].substeps |-> pauseTimer(l[k].substeps[j])]]]

taskPauseClick(l, i) == [l EXCEPT ![i] = pauseTimer(@)]

taskResetClick(l, i) == [l EXCEPT ![i] = resetTimer(@)]

\* click on .substep-timer-toggle of sub-step j of task i
substepTimerToggle(l, i, j) ==
    LET running == l[i].substeps[j].timerRunning = "true"
    IN  IF running
        THEN [l EXCEPT ![i].substeps[j] = pauseTimer(@)]
        ELSE [l EXCEPT ![i].substeps[j] = startTimer(@)]

\* change of .toggle-urgent of task i (the browser has flipped its checked)
toggleUrgentChange(l, i) ==
    LET checked == ~l[i].urgentChecked
    IN  sortTasks([l EXCEPT ![i].urgentChecked = checked,
                            ![i].isUrgent = IF checked THEN "true" ELSE "false",
                            ![i].matrixTouched = "true"])

\* change of .toggle-important of task i
toggleImportantChange(l, i) ==
    LET checked == ~l[i].importantChecked
    IN  sortTasks([l EXCEPT ![i].importantChecked = checked,
                            ![i].isImportant = IF checked THEN "true" ELSE "false",
                            ![i].matrixTouched = "true"])

\* getTaskCategory(etaMin).label
getTaskCategory(etaMin) ==
    IF etaMin < 15 THEN "Quick"
    ELSE IF etaMin >= 15 /\ etaMin <= 60 THEN "Core"
    ELSE "Major"

\* the calendar day `new Date()` gives while the page is followed
Today == 2

autoClassifyTask_quickUpTo15(taskLi) ==
    LET hasEta == taskLi.etaMin # <<>>
        etaMin == IF hasEta THEN parseInt(taskLi.etaMin) ELSE 0
        imp == IF hasEta /\ etaMin <= 15 THEN FALSE ELSE TRUE
        urg == (hasEta /\ etaMin < 60) \/ taskLi.deadline = Str(Today)
    IN  [taskLi EXCEPT !.isImportant = IF imp THEN "true" ELSE "false",
                       !.isUrgent = IF urg THEN "true" ELSE "false"]

\* autoClassifyTask(taskLi)
autoClassifyTask(taskLi) ==
    LET hasEta == taskLi.etaMin # <<>>
        etaMin == IF hasEta THEN parseInt(taskLi.etaMin) ELSE 0
        label == getTaskCategory(etaMin)
        imp0 == TRUE
        imp1 == IF hasEta /\ label = "Quick" THEN FALSE ELSE imp0
        imp2 == IF hasEta /\ label \in {"Core", "Major"} THEN TRUE ELSE imp1
        urg0 == FALSE
        urg1 == IF hasEta /\ etaMin < 60 THEN TRUE ELSE urg0
        deadline == OrElse(taskLi.deadline, <<>>)
        urg2 == IF deadline # <<>> /\ deadline = Str(Today) THEN TRUE ELSE urg1
    IN  [taskLi EXCEPT !.isImportant = IF imp2 THEN "true" ELSE "false",
                       !.isUrgent = IF urg2 THEN "true" ELSE "false"]

etaChange_classify(l, i, value) ==
    LET v == value
    IN  IF v # <<>>
        THEN [l EXCEPT ![i] = autoClassifyTask([@ EXCEPT !.etaMin = Str(parseInt(v))])]
        ELSE [l EXCEPT ![i] = autoClassifyTask([@ EXCEPT !.etaMin = <<>>])]

\* change of .eta-input of task i to `value`, the digits typed (<<>>: nothing,
\* or blanks only, which trim() removes)
etaChange(l, i, value) ==
    LET v == value
    IN  IF v # <<>>
        THEN [l EXCEPT ![i].etaMin = Str(parseInt(v))]
        ELSE [l EXCEPT ![i].etaMin = <<>>]

\* applyDeadline(li, deadline)
applyDeadline(li, deadline) ==
    IF deadline = <<>> THEN [li EXCEPT !.deadline = <<>>]
    ELSE [li EXCEPT !.deadline = deadline]

\* the handler without its sortByUrgency()
deadlineChange_noSort(l, i, newDeadline) == [l EXCEPT ![i] = applyDeadline(@, newDeadline)]

\* change of .deadline-input of task i to newDeadline
deadlineChange(l, i, newDeadline) ==
    sortByUrgency([l EXCEPT ![i] = applyDeadline(@, newDeadline)])

\* listContainer.querySelector(':scope > li[data-task-id="' + taskId + '"]'):
\* the first task whose data-task-id is the string, 0 when there is none
findByTaskId(l, taskId) ==
    LET hits == {k \in DOMAIN l : Len(l[k].taskId) = Len(taskId) /\ l[k].taskId = taskId}
    IN  IF hits = {} THEN 0 ELSE CHOOSE k \in hits : \A m \in hits : k <= m

\* the flags the drop handler writes for a quadrant
quadrantFlags(quadrant) ==
    IF quadrant = "do-first" THEN [isUrgent |-> "true", isImportant |-> "true"]
    ELSE IF quadrant = "schedule" THEN [isUrgent |-> "false", isImportant |-> "true"]
    ELSE IF quadrant = "delegate" THEN [isUrgent |-> "true", isImportant |-> "false"]
    ELSE [isUrgent |-> "false", isImportant |-> "false"]

\* drop on the cell of `quadrant` with dataTransfer text `taskId`
matrixDrop(l, taskId, quadrant) ==
    LET k == findByTaskId(l, taskId)
    IN  IF taskId = <<>> \/ k = 0 THEN l
        ELSE [l EXCEPT ![k].isUrgent = quadrantFlags(quadrant).isUrgent,
                       ![k].isImportant = quadrantFlags(quadrant).isImportant]

\* ----------------------------------------------------------------- actions
Op(name, info) == [op |-> name, info |-> info]

\* Every handler that changes the children of #list-container, or fires an
\* input/change event inside it, is followed by saveTasks() (the MutationObserver
\* and the two listeners of lines 311-316) before the next event is handled.
Settle(l, counter, det, op) ==
    /\ list' = l
    /\ taskIdCounter' = counter
    /\ detached' = det
    /\ completedCounter' = updateCounters(l).completed
    /\ uncompletedCounter' = updateCounters(l).uncompleted
    /\ storage' = saveTasks(l)
    /\ UNCHANGED pasteVars
    /\ lastOp' = op

\* addTask(): Enter in #input-box or the Add button
AddTask(text) ==
    LET task == trim(text) IN
    IF task = ""
    THEN /\ UNCHANGED pasteVars
         /\ lastOp' = Op("addTaskRejected", 0)
         /\ UNCHANGED <<list, taskIdCounter, detached, completedCounter,
                        uncompletedCounter, storage, matrix>>
    ELSE /\ NodeCount(list) < MaxNodes
         /\ taskIdCounter < MaxId
         /\ LET a == attachTaskEventHandlers(createTaskElement(task, "medium", <<>>),
                                             taskIdCounter)
            IN  /\ Settle(sortTasks(Append(list, a.li)), a.counter, detached,
                          Op("addTask", 0))
                /\ matrix' = renderMatrixView(list')

ClickTaskCheckbox(i) ==
    /\ Settle(taskCheckboxClick(list, i), taskIdCounter, detached, Op("taskCheckbox", 0))
    /\ UNCHANGED matrix

\* dblclick on .task-text of task i, a value typed, then Enter
InlineEditSave(i, value) ==
    LET val == trim(value) IN
    IF val = ""
    THEN /\ UNCHANGED pasteVars
         /\ lastOp' = Op("editRejected", 0)
         /\ UNCHANGED <<list, taskIdCounter, detached, completedCounter,
                        uncompletedCounter, storage, matrix>>
    ELSE /\ Settle(inlineEditFinish(list, i, val), taskIdCounter, detached, Op("edit", 0))
         /\ matrix' = renderMatrixView(list')

\* Add Step of task i; an empty text returns before anything is done
AddSubstep(i, text) ==
    /\ trim(text) # ""
    /\ NodeCount(list) < MaxNodes
    /\ taskIdCounter < MaxId
    /\ Settle(addSubFromInput(list, i, trim(text), taskIdCounter), taskIdCounter + 1,
              detached, Op("addSubstep", 0))
    /\ UNCHANGED matrix

ClickSubstepCheckbox(i, j) ==
    /\ Settle(substepCheckboxClick(list, i, j), taskIdCounter, detached,
              Op("substepCheckbox", 0))
    /\ UNCHANGED matrix

\* info: the number of intervals the handler cleared
DeleteSubstep(i, j) ==
    LET stopped == substepDeleteStop(list, i, j)
        left == stopped[i].substeps[j].tickers
    IN  /\ Settle(substepDeleteClick(stopped, i, j), taskIdCounter, detached \o left,
                  Op("deleteSubstep", Len(list[i].substeps[j].tickers) - Len(left)))
        /\ UNCHANGED matrix

\* click on .delete-btn of task i; info: the number of intervals the handler cleared
DeleteTask(i) ==
    LET left == TickersOfTask(stopTimersOfTask(list[i]))
    IN  /\ Settle(RemoveAt(list, i), taskIdCounter, detached \o left,
                  Op("deleteTask", Len(TickersOfTask(list[i])) - Len(left)))
        /\ matrix' = renderMatrixView(list')

\* click on #sort-button
SortByUrgency ==
    /\ Settle(sortByUrgency(list), taskIdCounter, detached, Op("sortByUrgency", 0))
    /\ UNCHANGED matrix

\* click on #sort-deadline-button
SortByDeadline ==
    /\ Settle(sortByDeadline(list), taskIdCounter, detached, Op("sortByDeadline", 0))
    /\ UNCHANGED matrix

\* A timer function changes attributes and, through updateTimerDisplay, the text
\* of .timer-display: a childList mutation, so saveTasks() follows; pauseTimer
\* changes attributes only.
TimerStep(l, op, saved) ==
    /\ list' = l
    /\ storage' = IF saved THEN saveTasks(l) ELSE storage
    /\ UNCHANGED pasteVars
    /\ lastOp' = op
    /\ UNCHANGED <<taskIdCounter, detached, completedCounter, uncompletedCounter,
                   matrix>>

\* info: 1 when the element already had an interval
StartTimer(i) ==
    TimerStep(taskStartClick(list, i),
              Op("startTimer", IF list[i].timerInterval # 0 THEN 1 ELSE 0),
              list[i].timerInterval = 0)

PauseTimer(i) == TimerStep(taskPauseClick(list, i), Op("pauseTimer", 0), FALSE)

\* info: the elapsed milliseconds the reset discarded
ResetTimer(i) ==
    TimerStep(taskResetClick(list, i),
              Op("resetTimer", parseInt(OrElse(list[i].elapsedMs, Str(0)))), TRUE)

ToggleSubstepTimer(i, j) ==
    TimerStep(substepTimerToggle(list, i, j),
              Op(IF list[i].substeps[j].timerRunning = "true"
                 THEN "pauseTimer" ELSE "startTimer", 0),
              list[i].substeps[j].timerRunning # "true")

\* one second went by for the x-th ticker of task i
TickTask(i, x) ==
    /\ list[i].tickers[x].elapsed < MaxTicks * TickMs
    /\ TimerStep([list EXCEPT ![i] = timerCallback(@, x)], Op("tick", 0), TRUE)

\* one second went by for the x-th ticker of sub-step j of task i
TickSubstep(i, j, x) ==
    /\ list[i].substeps[j].tickers[x].elapsed < MaxTicks * TickMs
    /\ TimerStep([list EXCEPT ![i].substeps[j] = timerCallback(@, x)], Op("tick", 0), TRUE)

\* The page is reloaded: beforeunload runs saveTasks(), then the script runs again
\* on a fresh document: taskIdCounter = 0, no interval, loadTasks(),
\* updateCounters(); the elements loadTasks appended make the observer save.
Reload ==
    LET raw == saveTasks(list)
        r == loadTasks(raw, <<>>, 0)
    IN  /\ list' = r.list
        /\ taskIdCounter' = r.counter
        /\ detached' = <<>>
        /\ completedCounter' = updateCounters(r.list).completed
        /\ uncompletedCounter' = updateCounters(r.list).uncompleted
        /\ storage' = IF r.list # <<>> THEN saveTasks(r.list) ELSE raw
        /\ matrix' = renderMatrixView(r.list)
        /\ pendingPasteText' = <<>>
        /\ toasts' = <<>>
        /\ lastOp' = Op("reload", 0)

\* change of .toggle-urgent of task i; sortTasks() renders the matrix
ToggleUrgent(i) ==
    /\ Settle(toggleUrgentChange(list, i), taskIdCounter, detached, Op("toggleUrgent", 0))
    /\ matrix' = renderMatrixView(list')

ToggleImportant(i) ==
    /\ Settle(toggleImportantChange(list, i), taskIdCounter, detached,
              Op("toggleImportant", 0))
    /\ matrix' = renderMatrixView(list')

\* change of .eta-input of task i; info: the position of the task
ChangeEta(i, value) ==
    /\ Settle(etaChange(list, i, value), taskIdCounter, detached, Op("eta", i))
    /\ matrix' = renderMatrixView(list')

\* change of .deadline-input of task i
ChangeDeadline(i, newDeadline) ==
    /\ Settle(deadlineChange(list, i, newDeadline), taskIdCounter, detached,
              Op("deadline", 0))
    /\ matrix' = renderMatrixView(list')

\* task i is dragged from the list (dragstart puts li.dataset.id into the
\* dataTransfer) and dropped on the cell of `quadrant`; the handler changes
\* attributes only, so nothing is saved, and it renders only when it found a
\* task
MatrixDrop(i, quadrant) ==
    LET taskId == list[i].id
        l == matrixDrop(list, taskId, quadrant)
    IN  /\ list' = l
        /\ matrix' = IF findByTaskId(list, taskId) # 0 THEN renderMatrixView(l) ELSE matrix
        /\ UNCHANGED pasteVars
        /\ lastOp' = Op("drop", 0)
        /\ UNCHANGED <<taskIdCounter, detached, completedCounter, uncompletedCounter,
                       storage>>

\* the first visit: nothing stored, the script has run once
Init ==
    /\ list = <<>>
    /\ taskIdCounter = 0
    /\ detached = <<>>
    /\ completedCounter = 0
    /\ uncompletedCounter = 0
    /\ storage = <<>>
    /\ matrix = renderMatrixView(<<>>)
    /\ pendingPasteText = <<>>
    /\ toasts = <<>>
    /\ lastOp = Op("reload", 0)

Next ==
    \/ \E text \in InputTexts : AddTask(text)
    \/ \E i \in DOMAIN list : ClickTaskCheckbox(i)
    \/ \E i \in DOMAIN list : \E value \in InputTexts : InlineEditSave(i, value)
    \/ \E i \in DOMAIN list : \E text \in InputTexts : AddSubstep(i, text)
    \/ \E i \in DOMAIN list : \E j \in DOMAIN list[i].substeps : ClickSubstepCheckbox(i, j)
    \/ \E i \in DOMAIN list : \E j \in DOMAIN list[i].substeps : DeleteSubstep(i, j)
    \/ \E i \in DOMAIN list : DeleteTask(i)
    \/ SortByUrgency
    \/ SortByDeadline
    \/ \E i \in DOMAIN list : StartTimer(i)
    \/ \E i \in DOMAIN list : PauseTimer(i)
    \/ \E i \in DOMAIN list : ResetTimer(i)
    \/ \E i \in DOMAIN list : \E j \in DOMAIN list[i].substeps : ToggleSubstepTimer(i, j)
    \/ \E i \in DOMAIN list : \E x \in DOMAIN list[i].tickers : TickTask(i, x)
    \/ \E i \in DOMAIN list : \E j \in DOMAIN list[i].substeps :
          \E x \in DOMAIN list[i].substeps[j].tickers : TickSubstep(i, j, x)
    \/ Reload

Spec == Init /\ [][Next]_vars

\* ------------------------------------------------- classification and matrix
\* texts typed into the task box, estimates typed into .eta-input and dates
\* picked in .deadline-input while the matrix is followed
MatrixTexts == {"", "a"}
EtaInputs == {<<>>, <<10>>}
DeadlineInputs == {<<>>, <<Today>>}

NextMatrix ==
    \/ \E text \in MatrixTexts : AddTask(text)
    \/ \E i \in DOMAIN list : ToggleUrgent(i)
    \/ \E i \in DOMAIN list : ToggleImportant(i)
    \/ \E i \in DOMAIN list : \E value \in EtaInputs : ChangeEta(i, value)
    \/ \E i \in DOMAIN list : \E d \in DeadlineInputs : ChangeDeadline(i, d)
    \/ \E i \in DOMAIN list : \E q \in Quadrants : MatrixDrop(i, q)
    \/ \E i \in DOMAIN list : DeleteTask(i)
    \/ Reload

SpecMatrix == Init /\ [][NextMatrix]_vars

\* ------------------------------------------------------------------ claims
\* positions of the elements of a list: <<i, 0>> is task i, <<i, j>> its sub-step j
Positions(l) ==
    {<<i, 0>> : i \in DOMAIN l} \cup
    UNION {{<<i, j>> : j \in DOMAIN l[i].substeps} : i \in DOMAIN l}

ElAt(l, p) == IF p[2] = 0 THEN l[p[1]] ELSE l[p[1]].substeps[p[2]]

Elapsed(e) == parseInt(OrElse(e.elapsedMs, Str(0)))

\* what the timer of an element consists of
TimerView(e) ==
    [elapsedMs |-> e.elapsedMs, timerRunning |-> e.timerRunning,
     timerInterval |-> e.timerInterval, tickers |-> e.tickers]

\* the elapsed times of a list, task by task
ElapsedOfTask(t) ==
    [e |-> Elapsed(t), subs |-> [j \in DOMAIN t.substeps |-> Elapsed(t.substeps[j])]]

ElapsedView(l) == [i \in DOMAIN l |-> ElapsedOfTask(l[i])]

IsPermutation(s, t) ==
    /\ Len(s) = Len(t)
    /\ \A x \in Range(s) \cup Range(t) :
          Cardinality({i \in DOMAIN s : s[i] = x}) = Cardinality({i \in DOMAIN t : t[i] = x})

\* C1: every task with N > 0 sub-steps is completed exactly when all N of its
\* sub-steps are completed.
C1_SubstepRollup ==
    \A i \in DOMAIN list :
        Len(list[i].substeps) > 0 =>
            (list[i].completed = (CompletedSubsteps(list[i]) = Len(list[i].substeps)))

\* C2: a reload (saveTasks, then loadTasks on a fresh page) yields a list whose
\* serialization equals the one that was saved, field for field.
C2_RoundTrip ==
    [][lastOp'.op = "reload" => saveTasks(list') = saveTasks(list)]_vars

\* C3: no two tasks of the list share a task id.
C3_UniqueTaskIds ==
    \A i, j \in DOMAIN list : i # j => list[i].taskId # list[j].taskId

\* C4: recomputing the summary of a task without sub-steps (during load, or when
\* its last sub-step is deleted) leaves its completed flag as it was.
C4_NoSubstepsKeepsCompleted ==
    [][/\ lastOp'.op = "reload" =>
            \A i \in DOMAIN list :
                list[i].substeps = <<>> => list'[i].completed = list[i].completed
       /\ lastOp'.op = "deleteSubstep" =>
            \A i \in DOMAIN list :
                (Len(list[i].substeps) = 1 /\ list'[i].substeps = <<>>)
                    => list'[i].completed = list[i].completed]_vars

\* C5: the completed counter shows the number of completed top-level tasks, and
\* the two counters add up to the number of top-level tasks.
C5_Counters ==
    /\ completedCounter = Cardinality({i \in DOMAIN list : list[i].completed})
    /\ completedCounter + uncompletedCounter = Len(list)

C5_Witness ==
    /\ \E i \in DOMAIN list : list[i].completed /\ list[i].substeps # <<>>
    /\ completedCounter = 1
    /\ uncompletedCounter = 0
    /\ lastOp.op = "substepCheckbox"

\* C6: an element never has more than one interval; a start on an element that is
\* already running changes nothing; a run of the callback raises the elapsed time
\* of its element by exactly 1000.
C6_StartIdempotent ==
    [][/\ \A e \in Elements(list') :
            /\ Len(e.tickers) <= 1
            /\ (e.timerInterval # 0) = (e.tickers # <<>>)
       /\ (lastOp'.op = "startTimer" /\ lastOp'.info = 1) => list' = list
       /\ lastOp'.op = "tick" =>
            \E p \in Positions(list) :
                /\ ElAt(list, p).tickers # <<>>
                /\ Elapsed(ElAt(list', p)) = Elapsed(ElAt(list, p)) + 1000]_vars

C6_Witness ==
    /\ lastOp = Op("startTimer", 1)
    /\ \E i \in DOMAIN list : Len(list[i].tickers) = 1 /\ list[i].tickers[1].ticks = 1

\* C7: while a timer runs, the elapsed time is the value at start plus 1000 per
\* run of the callback; a reset leaves elapsed 0, no interval and the element not
\* running; a tick changes no element that has no interval.
C7_TicksAndReset ==
    [][/\ \A e \in Elements(list') :
            \A x \in DOMAIN e.tickers :
                Elapsed(e) = e.tickers[x].start + 1000 * e.tickers[x].ticks
       /\ lastOp'.op = "resetTimer" =>
            \E i \in DOMAIN list :
                /\ list' = taskResetClick(list, i)
                /\ list'[i].elapsedMs = Str(0)
                /\ list'[i].timerRunning # "true"
                /\ list'[i].timerInterval = 0
                /\ list'[i].tickers = <<>>
       /\ lastOp'.op = "tick" =>
            \A p \in Positions(list) :
                ElAt(list, p).tickers = <<>> =>
                    ElAt(list', p).elapsedMs = ElAt(list, p).elapsedMs]_vars

C7_Witness ==
    /\ lastOp = Op("resetTimer", 2000)
    /\ \E i \in DOMAIN list :
          /\ list[i].elapsedMs = Str(0)
          /\ list[i].timerRunning = "false"
          /\ list[i].tickers = <<>>

\* C8: the elapsed time of an element changes only in a run of its own callback,
\* which raises it, and in a reset, which makes it 0; every other operation
\* (start, pause, completion, sorting, saving, reloading, adding, deleting) hands
\* on the elapsed times of the elements it keeps.
C8_ElapsedOnlyTickOrReset ==
    [][LET op == lastOp'.op
           old == ElapsedView(list)
           new == ElapsedView(list')
           fresh == [e |-> 0, subs |-> <<>>]
       IN  CASE op \in {"reload", "startTimer", "pauseTimer", "edit", "editRejected",
                        "addTaskRejected", "substepCheckbox"} ->
                    new = old
             [] op = "tick" ->
                    /\ Positions(list') = Positions(list)
                    /\ \E p \in Positions(list) :
                          /\ ElAt(list, p).tickers # <<>>
                          /\ Elapsed(ElAt(list', p)) > Elapsed(ElAt(list, p))
                          /\ \A q \in Positions(list) \ {p} :
                                Elapsed(ElAt(list', q)) = Elapsed(ElAt(list, q))
             [] op = "resetTimer" ->
                    \E i \in DOMAIN old : new = [old EXCEPT ![i].e = 0]
             [] op \in {"taskCheckbox", "sortByUrgency", "sortByDeadline"} ->
                    IsPermutation(new, old)
             [] op = "addTask" ->
                    IsPermutation(new, Append(old, fresh))
             [] op = "addSubstep" ->
                    \E i \in DOMAIN old : new = [old EXCEPT ![i].subs = Append(@, 0)]
             [] op = "deleteSubstep" ->
                    \E i \in DOMAIN old : \E j \in DOMAIN old[i].subs :
                        new = [old EXCEPT ![i].subs = RemoveAt(@, j)]
             [] op = "deleteTask" ->
                    \E i \in DOMAIN old : new = RemoveAt(old, i)
             [] OTHER -> FALSE]_vars

C8_Witness ==
    /\ lastOp.op = "reload"
    /\ \E i \in DOMAIN list :
          /\ Elapsed(list[i]) = 1000
          /\ \E j \in DOMAIN list[i].substeps : Elapsed(list[i].substeps[j]) = 2000

\* C9: no interval is left registered for an element that was deleted, neither
\* for a deleted sub-step nor for a deleted task or one of its sub-steps.
C9_NoTickerAfterDelete == detached = <<>>

C9_Witness ==
    /\ lastOp = Op("deleteTask", 2)
    /\ detached = <<>>

\* C10: a start, pause or reset changes the timer (elapsed time, running flag,
\* interval) of one element at most.
C10_TimerIsolation ==
    [][lastOp'.op \in {"startTimer", "pauseTimer", "resetTimer"} =>
          /\ Positions(list') = Positions(list)
          /\ \E p \in Positions(list) :
                \A q \in Positions(list) \ {p} :
                    TimerView(ElAt(list', q)) = TimerView(ElAt(list, q))]_vars

C10_Witness ==
    /\ lastOp.op = "pauseTimer"
    /\ \E i \in DOMAIN list :
          /\ list[i].timerRunning = "false"
          /\ Elapsed(list[i]) = 1000
          /\ \E j \in DOMAIN list[i].substeps :
                /\ list[i].substeps[j].timerRunning = "true"
                /\ list[i].substeps[j].tickers # <<>>
                /\ Elapsed(list[i].substeps[j]) = 1000

\* C11: an element whose timer runs when the page is left has, after the reload,
\* the elapsed time that was saved and its timerRunning flag 'true' again.
C11_RunningRestored ==
    [][lastOp'.op = "reload" =>
          \A p \in Positions(list) :
              ElAt(list, p).timerRunning = "true" =>
                  /\ p \in Positions(list')
                  /\ ElAt(list', p).elapsedMs = ElAt(list, p).elapsedMs
                  /\ ElAt(list', p).timerRunning = "true"]_vars

\* ------------------------------------------------------------ the classifier
\* estimates 0..MaxEta, and no estimate, are classified
MaxEta == 61

EtaRange == {<<>>} \cup {Str(n) : n \in 0..MaxEta}

\* no deadline, the current day, another day
ClassifyDeadlines == {<<>>, Str(Today), Str(Today + 1)}

\* the page with the tasks of `l` in the list, everything rendered and saved
PageWith(l, counter, op) ==
    /\ list = l
    /\ taskIdCounter = counter
    /\ detached = <<>>
    /\ completedCounter = updateCounters(l).completed
    /\ uncompletedCounter = updateCounters(l).uncompleted
    /\ storage = saveTasks(l)
    /\ matrix = renderMatrixView(l)
    /\ pendingPasteText = <<>>
    /\ toasts = <<>>
    /\ lastOp = op

\* one task, its estimate and its deadline set through its two inputs
InitClassify ==
    \E eta \in EtaRange : \E d \in ClassifyDeadlines :
        LET a == attachTaskEventHandlers(createTaskElement("a", "medium", <<>>), 0)
            l == deadlineChange(etaChange(<<a.li>>, 1, eta), 1, d)
        IN  PageWith(l, a.counter, Op("deadline", 0))

\* autoClassifyTask(taskLi) on task i: two attributes change, nothing is
\* rendered or saved
Classify(i) ==
    /\ list' = [list EXCEPT ![i] = autoClassifyTask(@)]
    /\ UNCHANGED pasteVars
    /\ lastOp' = Op("autoClassify", i)
    /\ UNCHANGED <<taskIdCounter, detached, completedCounter, uncompletedCounter,
                   storage, matrix>>

NextClassify == \E i \in DOMAIN list : Classify(i)

SpecClassify == InitClassify /\ [][NextClassify]_vars

\* ------------------------------------------------------------- the sorts
\* lists of up to MaxSortLen tasks are sorted
MaxSortLen == 3

SortPriorities == {"high", "medium", "low"}
SortDeadlines == {<<>>, Str(1), Str(5)}
SortFlags == {"true", "false"}

\* the k-th task of a list to sort: created, given 'task-' + (k - 1), then its
\* priority and deadline, or its two flags, set
SortTask(k, priority, deadline, isUrgent, isImportant) ==
    [attachTaskEventHandlers(createTaskElement("a", priority, deadline), k - 1).li
        EXCEPT !.isUrgent = isUrgent, !.isImportant = isImportant,
               !.urgentChecked = (isUrgent = "true"),
               !.importantChecked = (isImportant = "true")]

\* the lists whose tasks differ in priority and deadline, and the lists whose
\* tasks differ in their flags
SortLists ==
    UNION {{[k \in 1..n |-> SortTask(k, f[k][1], f[k][2], "false", "false")] :
               f \in [1..n -> SortPriorities \X SortDeadlines]} : n \in 0..MaxSortLen}
    \cup
    UNION {{[k \in 1..n |-> SortTask(k, "medium", <<>>, f[k][1], f[k][2])] :
               f \in [1..n -> SortFlags \X SortFlags]} : n \in 0..MaxSortLen}

InitSort == \E l \in SortLists : PageWith(l, Len(l), Op("reload", 0))

\* sortTasks(), which addTask and the two toggles call
SortTasks ==
    /\ Settle(sortTasks(list), taskIdCounter, detached, Op("sortTasks", 0))
    /\ matrix' = renderMatrixView(list')

NextSort ==
    \/ SortByUrgency
    \/ SortByDeadline
    \/ SortTasks

SpecSort == InitSort /\ [][NextSort]_vars

\* the quadrant of a pair of flags: (T,T) Do-First, (F,T) Schedule, (T,F) Delegate,
\* (F,F) Eliminate
QuadrantOf(urgent, important) ==
    IF urgent /\ important THEN "do-first"
    ELSE IF important THEN "schedule"
    ELSE IF urgent THEN "delegate"
    ELSE "eliminate"

Flag(b) == IF b THEN "true" ELSE "false"

\* the manually classified tasks of a list, each with its flags
TouchedFlags(l) ==
    LET touched == SelectSeq(l, LAMBDA t : t.matrixTouched = "true")
    IN  [k \in DOMAIN touched |->
            [taskId |-> touched[k].taskId, isUrgent |-> touched[k].isUrgent,
             isImportant |-> touched[k].isImportant]]

\* C12: when the estimate of a never manually classified task without deadline
\* is set to 10, the task has urgent = true, important = false and is in the
\* Delegate quadrant when the handler returns.
C12_EtaClassifies ==
    [][lastOp'.op = "eta" =>
          LET t == list'[lastOp'.info]
          IN  (t.matrixTouched = "false" /\ t.etaMin = Str(10) /\ t.deadline = <<>>) =>
                  /\ t.isUrgent = "true"
                  /\ t.isImportant = "false"
                  /\ \E k \in DOMAIN matrix'["delegate"] : matrix'["delegate"][k] = t.text]_vars

\* C13: autoClassifyTask sets important = NOT(estimate < 15), true without an
\* estimate, and urgent = (estimate < 60) OR (the deadline is the current day).
C13_Classifier ==
    lastOp.op = "autoClassify" =>
        LET t == list[lastOp.info]
            hasEta == t.etaMin # <<>>
            estimate == IF hasEta THEN t.etaMin[1] ELSE 0
        IN  /\ t.isImportant = Flag(~(hasEta /\ estimate < 15))
            /\ t.isUrgent = Flag((hasEta /\ estimate < 60) \/ t.deadline = <<Today>>)

C13_Witness ==
    /\ lastOp.op = "autoClassify"
    /\ list[1].etaMin = <<60>>
    /\ list[1].deadline = <<Today>>
    /\ list[1].isUrgent = "true"
    /\ list[1].isImportant = "true"

\* C14: a change of the estimate or of the deadline of a task leaves the urgent and
\* important flags of every manually classified task as they were.
C14_ManualKeepsFlags ==
    [][lastOp'.op \in {"eta", "deadline"} =>
          IsPermutation(TouchedFlags(list'), TouchedFlags(list))]_vars

C14_Witness ==
    /\ lastOp.op = "eta"
    /\ LET t == list[lastOp.info]
       IN  /\ t.matrixTouched = "true"
           /\ t.etaMin = Str(10)
           /\ t.deadline = Str(Today)
           /\ t.isUrgent = "false"
           /\ t.isImportant = "true"

\* C15: a drop of a task of the list on a quadrant sets the flags of that task to
\* the values of the quadrant and marks the task manually classified.
C15_DropSetsFlags ==
    [][lastOp'.op = "drop" =>
          \E i \in DOMAIN list : \E q \in Quadrants :
              /\ list' = matrixDrop(list, list[i].id, q)
              /\ QuadrantOf(list'[i].isUrgent = "true", list'[i].isImportant = "true") = q
              /\ list'[i].matrixTouched = "true"]_vars

\* C16: a task that is marked manually classified stays marked in every step that
\* keeps the task, a reload included.
C16_TouchedStays ==
    [][lastOp'.op # "deleteTask" =>
          \A t \in Range(list) :
              Cardinality({i \in DOMAIN list :
                              list[i].taskId = t.taskId /\ list[i].matrixTouched = "true"})
                <= Cardinality({i \in DOMAIN list' :
                              list'[i].taskId = t.taskId /\ list'[i].matrixTouched = "true"})]_vars

\* C17: the items of each quadrant of the matrix are the tasks of the list whose
\* flags give that quadrant, one item per task.
C17_OneQuadrant ==
    \A q \in Quadrants :
        LET mine == SelectSeq(list, LAMBDA t :
                        QuadrantOf(t.isUrgent = "true", t.isImportant = "true") = q)
        IN  IsPermutation(matrix[q], [k \in DOMAIN mine |-> mine[k].text])

C17_Witness ==
    /\ lastOp.op = "addTask"
    /\ Len(list) = 2
    /\ list[1].isUrgent = "true" /\ list[1].isImportant = "true"
    /\ list[2].isUrgent = "false" /\ list[2].isImportant = "false"
    /\ matrix["do-first"] = <<"a">>
    /\ matrix["eliminate"] = <<"a">>

\* the weight of a priority: high 3, medium 2, low 1
Weight(priority) == CASE priority = "high" -> 3 [] priority = "medium" -> 2 [] OTHER -> 1

\* task a has a deadline that is before the deadline of b, no deadline being last
DeadlineBefore(a, b) ==
    a.deadline # <<>> /\ (b.deadline = <<>> \/ a.deadline[1] < b.deadline[1])

\* the score of a quadrant: Do-First 4, Schedule 3, Delegate 2, Eliminate 1
Score(t) ==
    LET q == QuadrantOf(t.isUrgent = "true", t.isImportant = "true")
    IN  CASE q = "do-first" -> 4 [] q = "schedule" -> 3 [] q = "delegate" -> 2 [] OTHER -> 1

\* where the task with this id is in a list
IndexOf(l, taskId) == CHOOSE k \in DOMAIN l : l[k].taskId = taskId

\* C18: sortByUrgency leaves the tasks ordered by priority weight descending and,
\* among tasks of equal priority, by deadline ascending with no deadline last.
C18_SortByUrgency ==
    [][lastOp'.op = "sortByUrgency" =>
          /\ IsPermutation(list', list)
          /\ \A a, b \in DOMAIN list' :
                a < b =>
                    /\ Weight(list'[a].priority) >= Weight(list'[b].priority)
                    /\ Weight(list'[a].priority) = Weight(list'[b].priority)
                           => ~DeadlineBefore(list'[b], list'[a])]_vars

C18_Witness ==
    /\ lastOp.op = "sortByUrgency"
    /\ Len(list) = 3
    /\ list[1].priority = "high" /\ list[1].deadline = <<1>> /\ list[1].taskId = <<"task", 2>>
    /\ list[2].priority = "high" /\ list[2].deadline = <<5>> /\ list[2].taskId = <<"task", 1>>
    /\ list[3].priority = "low" /\ list[3].deadline = <<1>> /\ list[3].taskId = <<"task", 0>>

\* C19: sortByDeadline leaves the tasks ordered by deadline ascending, every task
\* without deadline after every task with one; tasks with equal deadlines, and
\* tasks that both have none, keep their order.
C19_SortByDeadline ==
    [][lastOp'.op = "sortByDeadline" =>
          /\ IsPermutation(list', list)
          /\ \A a, b \in DOMAIN list' :
                a < b =>
                    /\ ~DeadlineBefore(list'[b], list'[a])
                    /\ list'[a].deadline = list'[b].deadline
                           => IndexOf(list, list'[a].taskId) < IndexOf(list, list'[b].taskId)]_vars

C19_Witness ==
    /\ lastOp.op = "sortByDeadline"
    /\ Len(list) = 3
    /\ list[1].deadline = <<1>> /\ list[1].taskId = <<"task", 2>>
    /\ list[2].deadline = <<>> /\ list[2].taskId = <<"task", 0>>
    /\ list[3].deadline = <<>> /\ list[3].taskId = <<"task", 1>>

\* C20: sortTasks leaves the tasks ordered by quadrant score descending, and tasks
\* of equal score keep their order.
C20_SortTasks ==
    [][lastOp'.op = "sortTasks" =>
          /\ IsPermutation(list', list)
          /\ \A a, b \in DOMAIN list' :
                a < b =>
                    /\ Score(list'[a]) >= Score(list'[b])
                    /\ Score(list'[a]) = Score(list'[b])
                           => IndexOf(list, list'[a].taskId) < IndexOf(list, list'[b].taskId)]_vars

C20_Witness ==
    /\ lastOp.op = "sortTasks"
    /\ Len(list) = 3
    /\ Score(list[1]) = 3 /\ list[1].taskId = <<"task", 2>>
    /\ Score(list[2]) = 2 /\ list[2].taskId = <<"task", 0>>
    /\ Score(list[3]) = 2 /\ list[3].taskId = <<"task", 1>>

\* ------------------------------------------- the sorts, on tasks in use
\* what was done to a task before its list is sorted: nothing; two sub-steps
\* added and its timer started and run for one tick; its checkbox checked
SortWork == {"none", "timed", "checked"}

FramePriorities == {"high", "low"}
FrameDeadlines == {<<>>, Str(1)}

\* the k-th task of such a list; its sub-steps take the ids after the tasks'
WorkedTask(k, priority, deadline, isUrgent, work) ==
    LET t == SortTask(k, priority, deadline, isUrgent, "false")
        c == MaxSortLen + 2 * (k - 1)
    IN  IF work = "timed"
        THEN LET l1 == addSubFromInput(<<t>>, 1, "a", c)
                 l2 == addSubFromInput(l1, 1, "b", c + 1)
                 l3 == taskStartClick(l2, 1)
             IN  timerCallback(l3[1], 1)
        ELSE IF work = "checked"
        THEN taskCheckboxClick(<<t>>, 1)[1]
        ELSE t

\* the lists of n such tasks
FrameLists(n) ==
    {[k \in 1..n |-> WorkedTask(k, f[k][1], f[k][2], f[k][3], f[k][4])] :
        f \in [1..n -> FramePriorities \X FrameDeadlines \X SortFlags \X SortWork]}

InitSortFrame ==
    \E n \in 0..MaxSortLen : \E l \in FrameLists(n) :
        PageWith(l, 3 * MaxSortLen, Op("reload", 0))

SpecSortFrame == InitSortFrame /\ [][NextSort]_vars

SortOps == {"sortByUrgency", "sortByDeadline", "sortTasks"}

\* C21: a sort applied to the list it has just produced changes nothing, for
\* each of sortByUrgency, sortByDeadline and sortTasks.
C21_SortIdempotent ==
    [][/\ lastOp'.op = "sortByUrgency" => sortByUrgency(list') = list'
       /\ lastOp'.op = "sortByDeadline" => sortByDeadline(list') = list'
       /\ lastOp'.op = "sortTasks" => sortTasks(list') = list'
       /\ (lastOp.op \in SortOps /\ lastOp'.op = lastOp.op) => list' = list]_vars

C21_Witness ==
    /\ lastOp.op = "sortByUrgency"
    /\ Len(list) = 3
    /\ list[1].taskId = <<"task", 1>> /\ list[1].priority = "high"
    /\ list[2].taskId = <<"task", 0>> /\ list[2].priority = "low"
    /\ list[3].taskId = <<"task", 2>> /\ list[3].priority = "low"
    /\ list[2].deadline = list[3].deadline

\* what a sort must leave alone in a task
FrameView(t) ==
    [id |-> t.taskId, substeps |-> t.substeps, elapsedMs |-> t.elapsedMs,
     timerRunning |-> t.timerRunning, isUrgent |-> t.isUrgent,
     isImportant |-> t.isImportant, completed |-> t.completed,
     deadline |-> t.deadline]

\* C22: each sort leaves a permutation of the same tasks and, in every task, the
\* order of its sub-steps, its elapsedMs, timerRunning, urgent and important
\* flags, completed flag, deadline and id as they were.
C22_SortFrame ==
    [][lastOp'.op \in SortOps =>
          /\ Len(list') = Len(list)
          /\ \A a, b \in DOMAIN list' : a # b => list'[a].taskId # list'[b].taskId
          /\ \A a \in DOMAIN list :
                \E b \in DOMAIN list' :
                    /\ list'[b].taskId = list[a].taskId
                    /\ FrameView(list'[b]) = FrameView(list[a])]_vars

C22_Witness ==
    /\ lastOp.op = "sortByDeadline"
    /\ Len(list) = 2
    /\ list[1].taskId = <<"task", 1>> /\ list[1].deadline = Str(1)
    /\ list[1].timerRunning = "true" /\ list[1].elapsedMs = Str(TickMs)
    /\ Len(list[1].substeps) = 2
    /\ list[2].taskId = <<"task", 0>> /\ list[2].completed

\* ------------------------------------------------------------ empty texts
\* a text with nothing in it but white space
Blank(text) == text \in {"", " "}

\* C27: addTask with an empty or white-space-only input, and the save of an inline
\* edit with such a text, are rejected and change nothing: list, counters, stored
\* snapshot and matrix stay as they were; the text of every task is non-empty in
\* every reachable state.
C27_NoEmptyText ==
    /\ [](\A i \in DOMAIN list : ~Blank(list[i].text))
    /\ [][lastOp'.op \in {"addTaskRejected", "editRejected"} =>
             UNCHANGED <<list, taskIdCounter, detached, completedCounter,
                         uncompletedCounter, storage, matrix>>]_vars
    /\ [][lastOp'.op = "addTask" =>
             /\ Len(list') = Len(list) + 1
             /\ \E k \in DOMAIN list' : list'[k].text = "a" /\ list'[k].taskId = <<"task", taskIdCounter>>]_vars

C27_Witness ==
    /\ lastOp.op = "editRejected"
    /\ Len(list) = 2
    /\ list[2].completed /\ list[2].text = "a"
    /\ storage = saveTasks(list)

\* -------------------------------------------------- the deadline countdown
\* the countdown is computed every four hours, from MaxCountdownSteps such steps
\* after the end of the deadline day to as long before it, and one millisecond
\* before and after each of these instants
MaxCountdownSteps == 43

CountdownStepMs == 1000 * 60 * 60 * 4
HourMs == 1000 * 60 * 60
DayMs == 1000 * 60 * 60 * 24

DiffRange ==
    {q * CountdownStepMs + o : q \in (0 - MaxCountdownSteps)..MaxCountdownSteps,
                              o \in {0 - 1, 0, 1}}

Abs(n) == IF n < 0 THEN 0 - n ELSE n

updateDeadlineCountdown_upTo(diffMs) ==
    IF diffMs < 0
    THEN [className |-> "overdue",
          text |-> <<"Overdue", Abs(diffMs) \div DayMs, "d", (Abs(diffMs) \div HourMs) % 24, "h">>]
    ELSE LET days == diffMs \div DayMs
             hours == (diffMs \div HourMs) % 24
             minutes == (diffMs \div (1000 * 60)) % 60
         IN  IF diffMs <= 24 * HourMs
             THEN [className |-> "critical", text |-> <<hours, "h", minutes, "m">>]
             ELSE IF diffMs <= 48 * HourMs
             THEN [className |-> "urgent", text |-> <<days, "d", hours, "h">>]
             ELSE IF diffMs <= 168 * HourMs
             THEN [className |-> "warning", text |-> <<days, "d", hours, "h">>]
             ELSE [className |-> "safe", text |-> <<days, "days">>]

\* updateDeadlineCountdown(li) of a task with a deadline, diffMs being
\* deadlineDate - now: the class added to 'deadline-countdown' and the parts of
\* the text shown; totalHours < 24 is diffMs < 24 hours in milliseconds
updateDeadlineCountdown(diffMs) ==
    IF diffMs < 0
    THEN [className |-> "overdue",
          text |-> <<"Overdue", Abs(diffMs) \div DayMs, "d", (Abs(diffMs) \div HourMs) % 24, "h">>]
    ELSE LET days == diffMs \div DayMs
             hours == (diffMs \div HourMs) % 24
             minutes == (diffMs \div (1000 * 60)) % 60
         IN  IF diffMs < 24 * HourMs
             THEN [className |-> "critical", text |-> <<hours, "h", minutes, "m">>]
             ELSE IF diffMs < 48 * HourMs
             THEN [className |-> "urgent", text |-> <<days, "d", hours, "h">>]
             ELSE IF diffMs < 168 * HourMs
             THEN [className |-> "warning", text |-> <<days, "d", hours, "h">>]
             ELSE [className |-> "safe", text |-> <<days, "days">>]

\* one task with a deadline
InitCountdown ==
    LET a == attachTaskEventHandlers(createTaskElement("a", "medium", <<>>), 0)
    IN  PageWith(deadlineChange(<<a.li>>, 1, Str(Today)), a.counter, Op("deadline", 0))

\* the callback of startCountdownUpdates runs, or a deadline is applied, at the
\* instant diffMs before the end of the deadline day of task i; the new text is
\* a change of the list's subtree, so the list is saved
UpdateCountdown(i, diffMs) ==
    /\ list[i].deadline # <<>>
    /\ storage' = saveTasks(list)
    /\ UNCHANGED pasteVars
    /\ lastOp' = Op("countdown", [diffMs |-> diffMs, shown |-> updateDeadlineCountdown(diffMs)])
    /\ UNCHANGED <<list, taskIdCounter, detached, completedCounter, uncompletedCounter,
                   matrix>>

NextCountdown == \E i \in DOMAIN list : \E diffMs \in DiffRange : UpdateCountdown(i, diffMs)

SpecCountdown == InitCountdown /\ [][NextCountdown]_vars

\* C30: with h the hours from now to the end of the deadline day, the countdown
\* is overdue, with the whole days and hours elapsed, when now is after that
\* instant; otherwise critical when h < 24, urgent when 24 <= h < 48, warning when
\* 48 <= h < 168 and safe when h >= 168.
C30_CountdownBuckets ==
    lastOp.op = "countdown" =>
        LET d == lastOp.info.diffMs
            shown == lastOp.info.shown
        IN  /\ d < 0 =>
                  /\ shown.className = "overdue"
                  /\ shown.text[4] \in 0..23
                  /\ shown.text[2] * DayMs + shown.text[4] * HourMs <= 0 - d
                  /\ 0 - d < shown.text[2] * DayMs + (shown.text[4] + 1) * HourMs
            /\ (d >= 0 /\ d < 24 * HourMs) => shown.className = "critical"
            /\ (d >= 24 * HourMs /\ d < 48 * HourMs) => shown.className = "urgent"
            /\ (d >= 48 * HourMs /\ d < 168 * HourMs) => shown.className = "warning"
            /\ d >= 168 * HourMs => shown.className = "safe"

C30_Witness ==
    /\ lastOp.op = "countdown"
    /\ lastOp.info.diffMs = 168 * HourMs
    /\ lastOp.info.shown.className = "safe"
    /\ lastOp.info.shown.text = <<7, "days">>

\* ----------------------------------------------------------- the estimates
\* what .eta-input and .substep-eta-input, of type number with min="0", can
\* hold when the change event fires: nothing, or a number; min does not keep a
\* negative number out of the value
EtaTyped == {<<>>, <<0 - 5>>, <<0>>, <<10>>}

\* change of .substep-eta-input of sub-step j of task i
substepEtaChange(l, i, j, value) ==
    LET v == value
    IN  IF v # <<>>
        THEN [l EXCEPT ![i].substeps[j].etaMin = Str(parseInt(v))]
        ELSE [l EXCEPT ![i].substeps[j].etaMin = <<>>]

ChangeSubstepEta(i, j, value) ==
    /\ Settle(substepEtaChange(list, i, j, value), taskIdCounter, detached,
              Op("substepEta", i))
    /\ UNCHANGED matrix

NextEta ==
    \/ \E text \in MatrixTexts : AddTask(text)
    \/ \E i \in DOMAIN list : \E text \in MatrixTexts : AddSubstep(i, text)
    \/ \E i \in DOMAIN list : \E value \in EtaTyped : ChangeEta(i, value)
    \/ \E i \in DOMAIN list : \E j \in DOMAIN list[i].substeps :
          \E value \in EtaTyped : ChangeSubstepEta(i, j, value)
    \/ \E i \in DOMAIN list : DeleteTask(i)
    \/ Reload

SpecEta == Init /\ [][NextEta]_vars

\* C28: the etaMin stored for a task or a sub-step is always absent or a
\* non-negative integer.
C28_EtaNonNegative ==
    \A i \in DOMAIN list :
        /\ list[i].etaMin = <<>> \/ parseInt(list[i].etaMin) >= 0
        /\ \A j \in DOMAIN list[i].substeps :
              list[i].substeps[j].etaMin = <<>> \/ parseInt(list[i].substeps[j].etaMin) >= 0

\* ------------------------------------------------ what start-up may find
\* arrays of up to MaxStored elements are found in the storage
MaxStored == 2

\* a stored task with every property set, and its sub-step
StoredSubstep ==
    [id |-> <<"substep", 1>>, text |-> "b", completed |-> TRUE, etaMin |-> Str(10),
     elapsedMs |-> Str(TickMs)]

StoredTask ==
    [id |-> <<"task", 0>>, text |-> "a", desc |-> <<"d">>, deadline |-> Str(Today),
     etaMin |-> Str(10), completed |-> TRUE, isUrgent |-> "true",
     isImportant |-> "true", elapsedMs |-> Str(TickMs), collapsed |-> TRUE,
     substeps |-> <<StoredSubstep>>]

\* the object with the properties `fields` of `rec` and one property the
\* program does not know
Partial(rec, fields) ==
    [f \in fields \cup {"color"} |-> IF f = "color" THEN "red" ELSE rec[f]]

\* the sub-steps a stored task may have: none, the full one, one without id, one
\* with no known property, a null
StoredSubsteps ==
    {<<>>, <<StoredSubstep>>, <<Partial(StoredSubstep, SubstepFields \ {"id"})>>,
     <<Partial(StoredSubstep, {})>>, <<<<>>>>}

\* the elements a stored array may have: null, and objects with or without id,
\* with all the other properties or none of them
StoredElements ==
    {<<>>}
    \cup {Partial([StoredTask EXCEPT !.substeps = ss], TaskFields) : ss \in StoredSubsteps}
    \cup {Partial(StoredTask, TaskFields \ {"id"}),
          Partial(StoredTask, TaskFields \ {"substeps"}),
          Partial(StoredTask, {"id"}),
          Partial(StoredTask, {})}

\* what localStorage may hold under the key of the tasks when the page is opened
StoredRaws(n) ==
    {<<>>, <<"{{", "SyntaxError">>, <<"{}", "object", "parsed">>}
    \cup UNION {{<<a>> : a \in [1..m -> StoredElements]} : m \in 0..n}

\* the document is parsed and the script has not run yet
InitLoad ==
    /\ list = <<>>
    /\ taskIdCounter = 0
    /\ detached = <<>>
    /\ completedCounter = 0
    /\ uncompletedCounter = 0
    /\ storage \in StoredRaws(MaxStored)
    /\ matrix = renderMatrixView(<<>>)
    /\ pendingPasteText = <<>>
    /\ toasts = <<>>
    /\ lastOp = Op("stored", 0)

\* the script runs: loadTasks(), updateCounters(), renderMatrixView(); the
\* observer saves the list if loadTasks appended anything to it
Startup ==
    /\ lastOp.op = "stored"
    /\ LET r == loadTasks(storage, list, taskIdCounter)
       IN  /\ list' = r.list
           /\ taskIdCounter' = r.counter
           /\ completedCounter' = updateCounters(r.list).completed
           /\ uncompletedCounter' = updateCounters(r.list).uncompleted
           /\ storage' = IF r.list # <<>> THEN saveTasks(r.list) ELSE storage
           /\ matrix' = renderMatrixView(r.list)
    /\ UNCHANGED pasteVars
    /\ lastOp' = Op("load", storage)
    /\ UNCHANGED detached

NextLoad ==
    \/ Startup
    \/ lastOp.op # "stored" /\ \E text \in MatrixTexts : AddTask(text)
    \/ lastOp.op # "stored" /\ \E i \in DOMAIN list : DeleteTask(i)

SpecLoad == InitLoad /\ [][NextLoad]_vars

\* the stored item is not the text of an array of objects
Malformed(raw) ==
    \/ ParseThrows(raw)
    \/ raw # <<>> /\ ~ParseThrows(raw) /\ ~IsArray(raw)
    \/ IsArray(raw) /\ \E k \in DOMAIN raw[1] : IsNull(raw[1][k])

\* C25: when the stored item does not parse, is not an array, or is an array with
\* an element of the wrong shape such as null, the list is empty after loadTasks.
C25_MalformedIsNoData ==
    (lastOp.op = "load" /\ Malformed(lastOp.info)) => list = <<>>

\* C26: a stored task without id gets an id that is non-empty and is the id of no
\* other task of the list, and a stored sub-step without id gets a non-empty id.
C26_FreshIds ==
    (/\ lastOp.op = "load"
     /\ IsArray(lastOp.info)
     /\ Len(list) = Len(lastOp.info[1])) =>
        \A k \in DOMAIN list :
            /\ "id" \notin DOMAIN lastOp.info[1][k] =>
                  /\ list[k].taskId # <<>>
                  /\ \A m \in DOMAIN list : m # k => list[m].taskId # list[k].taskId
            /\ \A j \in DOMAIN list[k].substeps : list[k].substeps[j].substepId # <<>>

\* ------------------------------------------------- a storage that is full
\* the page is opened with one task stored or none; lastOp.info is 1 when
\* loadData will find legacy settings only and return needsSave
InitQuota ==
    /\ list = <<>>
    /\ taskIdCounter = 0
    /\ detached = <<>>
    /\ completedCounter = 0
    /\ uncompletedCounter = 0
    /\ storage \in {<<>>, <<<<StoredTask>>>>}
    /\ matrix = renderMatrixView(<<>>)
    /\ pendingPasteText = <<>>
    /\ toasts = <<>>
    /\ \E needsSave \in {0, 1} : lastOp = Op("stored", needsSave)

\* the script runs with needsSave and localStorage.setItem throws in saveData():
\* saveData has no try, the call is at the top level of the script, so the
\* script ends there: loadTasks() is never reached and no handler of the task
\* list is registered
StartupFull ==
    /\ lastOp.op = "stored"
    /\ lastOp.info = 1
    /\ UNCHANGED pasteVars
    /\ lastOp' = Op("saveDataThrew", 0)
    /\ UNCHANGED <<list, taskIdCounter, detached, completedCounter, uncompletedCounter,
                   storage, matrix>>

\* a handler has left the list `l` and localStorage.setItem throws in the
\* saveTasks() that follows it: nothing is written, saveTasks has no try, and
\* the exception leaves it
SettleThrows(l, counter, det) ==
    /\ list' = l
    /\ taskIdCounter' = counter
    /\ detached' = det
    /\ completedCounter' = updateCounters(l).completed
    /\ uncompletedCounter' = updateCounters(l).uncompleted
    /\ storage' = storage
    /\ UNCHANGED pasteVars
    /\ lastOp' = Op("saveTasksThrew", 0)

AddTaskFull(text) ==
    /\ trim(text) # ""
    /\ NodeCount(list) < MaxNodes
    /\ taskIdCounter < MaxId
    /\ LET a == attachTaskEventHandlers(createTaskElement(trim(text), "medium", <<>>),
                                        taskIdCounter)
       IN  /\ SettleThrows(sortTasks(Append(list, a.li)), a.counter, detached)
           /\ matrix' = renderMatrixView(list')

ClickTaskCheckboxFull(i) ==
    /\ SettleThrows(taskCheckboxClick(list, i), taskIdCounter, detached)
    /\ UNCHANGED matrix

\* the script has run to its end
Started == lastOp.op \notin {"stored", "saveDataThrew"}

NextQuota ==
    \/ Startup
    \/ StartupFull
    \/ Started /\ \E text \in MatrixTexts : AddTask(text)
    \/ Started /\ \E text \in MatrixTexts : AddTaskFull(text)
    \/ Started /\ \E i \in DOMAIN list : ClickTaskCheckbox(i)
    \/ Started /\ \E i \in DOMAIN list : ClickTaskCheckboxFull(i)
    \/ Started /\ \E i \in DOMAIN list : DeleteTask(i)

SpecQuota == InitQuota /\ [][NextQuota]_vars

\* C24: when the write to the storage throws during a save, no exception leaves
\* the save, at start-up or after a handler.
C24_WriteFailureSwallowed == lastOp.op \notin {"saveDataThrew", "saveTasksThrew"}

\* ---------------------------------------------------- the stored snapshot
\* click on .collapse-btn of task i: the class is toggled and the text of the
\* button is set, a change of the subtree that makes the observer save
collapseClick(l, i) == [l EXCEPT ![i].collapsed = ~@]

ToggleCollapse(i) ==
    /\ Settle(collapseClick(list, i), taskIdCounter, detached, Op("collapse", 0))
    /\ UNCHANGED matrix

\* the text a drag that did not start on a task of the list may carry, such as
\* a selected text: here a text that reads like a task id
DropTexts == {<<"task", n>> : n \in 0..(MaxId - 1)}

\* such a text is dropped on the cell of `quadrant`: the handler writes the two
\* attributes of the task it finds and renders; an attribute is no change of
\* childList and no input or change event is fired, so nothing is saved
MatrixDropText(taskId, quadrant) ==
    LET l == matrixDrop(list, taskId, quadrant)
    IN  /\ list' = l
        /\ matrix' = IF findByTaskId(list, taskId) # 0 THEN renderMatrixView(l) ELSE matrix
        /\ UNCHANGED pasteVars
        /\ lastOp' = Op("dropText", 0)
        /\ UNCHANGED <<taskIdCounter, detached, completedCounter, uncompletedCounter,
                       storage>>

NextStore ==
    \/ \E text \in MatrixTexts : AddTask(text)
    \/ \E i \in DOMAIN list : DeleteTask(i)
    \/ \E i \in DOMAIN list : ToggleUrgent(i)
    \/ \E i \in DOMAIN list : ToggleCollapse(i)
    \/ \E i \in DOMAIN list : \E quadrant \in Quadrants : MatrixDrop(i, quadrant)
    \/ \E taskId \in DropTexts : \E quadrant \in Quadrants : MatrixDropText(taskId, quadrant)

SpecStore == Init /\ [][NextStore]_vars

\* C23: after a handler that changes what is persisted of a task or a sub-step,
\* and the turn of the event loop in which the observer runs, the stored
\* snapshot is the serialization of the list.
C23_StoredFollowsList ==
    [][saveTasks(list') # saveTasks(list) => storage' = saveTasks(list')]_vars

\* ------------------------------------------------------- the inline editor
\* An editor is one .task-edit-input with the closure of its startInlineEdit
\* call: `value` is input.value, `done` the flag of the closure, `attached`
\* whether the input is still in the document; `began` records the text and
\* the completed class of the task when the editor was opened.
EditTexts == {"", " ", "b"}

\* startInlineEdit(li, taskSpan, checkbox) on task i
startInlineEdit(l, i) ==
    IF \E x \in DOMAIN l[i].editors : l[i].editors[x].attached
    THEN l
    ELSE [l EXCEPT ![i].editors =
             Append(@, [value |-> l[i].text, done |-> FALSE, attached |-> TRUE,
                        began |-> [text |-> l[i].text, completed |-> l[i].completed]])]

finish_noDone(l, i, x, save) ==
    LET ed == l[i].editors[x]
        val == trim(ed.value)
    IN  IF save
        THEN IF val = "" THEN l
             ELSE [inlineEditFinish(l, i, val) EXCEPT ![i].editors[x].done = TRUE,
                                                     ![i].editors[x].attached = FALSE]
        ELSE [l EXCEPT ![i].editors[x].done = TRUE, ![i].editors[x].attached = FALSE]

\* finish(save) of the x-th editor of task i; with an empty value the alert is
\* shown, done is set back to false and the editor stays
finish(l, i, x, save) ==
    LET ed == l[i].editors[x]
        val == trim(ed.value)
    IN  IF ed.done THEN l
        ELSE IF save
        THEN IF val = "" THEN l
             ELSE [inlineEditFinish(l, i, val) EXCEPT ![i].editors[x].done = TRUE,
                                                     ![i].editors[x].attached = FALSE]
        ELSE [l EXCEPT ![i].editors[x].done = TRUE, ![i].editors[x].attached = FALSE]

\* input.remove() may dispatch blur on the input that had the focus, depending on
\* the browser; the blur listener calls finish(true)
blurOnRemove(l, i, x, blurFires) ==
    IF blurFires /\ ~l[i].editors[x].attached THEN finish(l, i, x, TRUE) ELSE l

\* once its input is out of the document no event reaches an editor any more
dropRemoved(l, i) ==
    [l EXCEPT ![i].editors = SelectSeq(@, LAMBDA ed : ed.attached)]

\* keydown of Enter or Escape, and blur, on the x-th editor of task i
editKeydown(l, i, x, key, blurFires) ==
    dropRemoved(blurOnRemove(finish(l, i, x, key = "Enter"), i, x, blurFires), i)

editBlur(l, i, x) == dropRemoved(finish(l, i, x, TRUE), i)

\* no task has an editor open: a click elsewhere first blurs the editor
NoEditor == \A i \in DOMAIN list : list[i].editors = <<>>

\* an editor action: the input inserted or removed and the text typed are
\* changes the list saves; finish(true) that saved has rendered the matrix
EditStep(l, op) ==
    /\ Settle(l, taskIdCounter, detached, op)
    /\ matrix' = IF [k \in DOMAIN l |-> l[k].text] = [k \in DOMAIN list |-> list[k].text]
                 THEN matrix ELSE renderMatrixView(l)

\* dblclick on .task-text of task i
StartEdit(i) == EditStep(startInlineEdit(list, i), Op("editStart", i))

TypeEdit(i, x, value) ==
    EditStep([list EXCEPT ![i].editors[x].value = value], Op("editType", i))

EditEnter(i, x, blurFires) ==
    EditStep(editKeydown(list, i, x, "Enter", blurFires), Op("editEnter", i))

EditEscape(i, x, blurFires) ==
    EditStep(editKeydown(list, i, x, "Escape", blurFires),
             Op("editEscape", [task |-> i, typed |-> list[i].editors[x].value]))

EditBlur(i, x) == EditStep(editBlur(list, i, x), Op("editBlur", i))

NextEdit ==
    \/ NoEditor /\ \E text \in MatrixTexts : AddTask(text)
    \/ NoEditor /\ \E i \in DOMAIN list : ClickTaskCheckbox(i)
    \/ \E i \in DOMAIN list : StartEdit(i)
    \/ \E i \in DOMAIN list : \E x \in DOMAIN list[i].editors :
          \E value \in EditTexts : TypeEdit(i, x, value)
    \/ \E i \in DOMAIN list : \E x \in DOMAIN list[i].editors :
          \E blurFires \in BOOLEAN : EditEnter(i, x, blurFires)
    \/ \E i \in DOMAIN list : \E x \in DOMAIN list[i].editors :
          \E blurFires \in BOOLEAN : EditEscape(i, x, blurFires)
    \/ \E i \in DOMAIN list : \E x \in DOMAIN list[i].editors : EditBlur(i, x)

SpecEdit == Init /\ [][NextEdit]_vars

\* C29: Escape in the editor of a task leaves the text and the completed flag of
\* the task as they were when the editor was opened, whatever was typed and
\* whether or not the removal of the input fires blur, and removes the editor; a
\* task never has more than one editor.
C29_EscapeCancels ==
    /\ [](\A i \in DOMAIN list : Len(list[i].editors) <= 1)
    /\ [][lastOp'.op = "editEscape" =>
             LET i == lastOp'.info.task
             IN  /\ list'[i].text = list[i].editors[1].began.text
                 /\ list'[i].completed = list[i].editors[1].began.completed
                 /\ list'[i].checked = list[i].checked
                 /\ list'[i].editors = <<>>
                 /\ storage' = saveTasks(list)]_vars

C29_Witness ==
    /\ lastOp.op = "editEscape"
    /\ Len(list) = 2
    /\ list[2].completed /\ list[2].text = "a" /\ list[2].editors = <<>>
    /\ lastOp.info.task = 2
    /\ lastOp.info.typed = "b"

\* -------------------------------------------------- flag and ticker agree
\* the intervals registered for an element, and whether its flag agrees with them
FlagMatchesTicker(el) ==
    /\ Len(el.tickers) <= 1
    /\ (el.timerRunning = "true") <=> (el.tickers # <<>>)
    /\ el.tickers # <<>> => el.timerInterval = el.tickers[1].id
    /\ el.tickers = <<>> => el.timerInterval = 0

\* C35: for every task and sub-step of the list, timerRunning is 'true' exactly
\* when an interval is registered for it, and at most one interval is registered.
C35_FlagMatchesTicker ==
    \A i \in DOMAIN list :
        /\ FlagMatchesTicker(list[i])
        /\ \A j \in DOMAIN list[i].substeps : FlagMatchesTicker(list[i].substeps[j])

C35_Witness ==
    /\ lastOp.op = "pauseTimer"
    /\ Len(list) = 1
    /\ list[1].timerRunning = "false" /\ list[1].tickers = <<>>
    /\ list[1].elapsedMs = Str(TickMs)
    /\ Len(list[1].substeps) = 1
    /\ list[1].substeps[1].timerRunning = "true"
    /\ Len(list[1].substeps[1].tickers) = 1

\* ------------------------------------------------ completion and position
\* lists of up to MaxSortLen tasks, each untouched, or with two sub-steps and a
\* running timer, or checked
CompleteLists(n) ==
    {[k \in 1..n |-> WorkedTask(k, "medium", <<>>, "false", f[k])] :
        f \in [1..n -> SortWork]}

InitComplete ==
    \E n \in 0..MaxSortLen : \E l \in CompleteLists(n) :
        PageWith(l, 3 * MaxSortLen, Op("reload", 0))

NextComplete ==
    \/ \E i \in DOMAIN list : ClickTaskCheckbox(i)
    \/ \E i \in DOMAIN list : \E j \in DOMAIN list[i].substeps : ClickSubstepCheckbox(i, j)

SpecComplete == InitComplete /\ [][NextComplete]_vars

\* the tasks of a list other than the one with this id, in their order
OthersOf(l, taskId) == SelectSeq(l, LAMBDA t : t.taskId # taskId)

TaskIdsOf(l) == [k \in DOMAIN l |-> l[k].taskId]

\* C37: a click that checks the checkbox of a task makes it the last task of the
\* list and leaves the other tasks in their order; a click that unchecks it, and a
\* click on a sub-step checkbox (which may complete the task), move no task.
C37_CheckedGoesLast ==
    [][/\ lastOp'.op = "taskCheckbox" =>
             \E i \in DOMAIN list :
                 LET id == list[i].taskId
                 IN  /\ OthersOf(list', id) = OthersOf(list, id)
                     /\ Len(list') = Len(list)
                     /\ list'[IndexOf(list', id)].checked = ~list[i].checked
                     /\ list'[IndexOf(list', id)].completed = ~list[i].checked
                     /\ ~list[i].checked => IndexOf(list', id) = Len(list')
                     /\ list[i].checked => IndexOf(list', id) = i
       /\ lastOp'.op = "substepCheckbox" => TaskIdsOf(list') = TaskIdsOf(list)]_vars

C37_Witness ==
    /\ lastOp.op = "taskCheckbox"
    /\ Len(list) = 3
    /\ list[1].taskId = <<"task", 1>> /\ ~list[1].completed
    /\ list[2].taskId = <<"task", 2>> /\ list[2].completed
    /\ list[3].taskId = <<"task", 0>> /\ list[3].completed /\ list[3].checked
    /\ Len(list[3].substeps) = 2 /\ ~list[3].substeps[1].completed

\* ----------------------------------------------- completion and the timers
\* the timers of a task and of its sub-steps
TaskTimers(t) ==
    [own |-> TimerView(t), subs |-> [j \in DOMAIN t.substeps |-> TimerView(t.substeps[j])]]

\* C38: a click on the checkbox of a task or of a sub-step, the roll-up of the
\* sub-steps into their task, and the save of an inline edit leave the elapsedMs,
\* the timerRunning flag and the registered interval of every element as they
\* were; the task a click has checked and moved carries its timers with it.
C38_CompletionKeepsTimers ==
    [][/\ lastOp'.op = "taskCheckbox" =>
             IsPermutation([k \in DOMAIN list' |-> TaskTimers(list'[k])],
                           [k \in DOMAIN list |-> TaskTimers(list[k])])
       /\ lastOp'.op \in {"substepCheckbox", "edit"} =>
             /\ Positions(list') = Positions(list)
             /\ \A p \in Positions(list) :
                   TimerView(ElAt(list', p)) = TimerView(ElAt(list, p))
       /\ lastOp'.op \in {"addSubstep", "deleteSubstep"} =>
             /\ Len(list') = Len(list)
             /\ \A i \in DOMAIN list : TimerView(list'[i]) = TimerView(list[i])]_vars

C38_Witness ==
    /\ lastOp.op = "taskCheckbox"
    /\ Len(list) = 2
    /\ list[2].completed /\ list[2].checked
    /\ list[2].timerRunning = "true"
    /\ Len(list[2].tickers) = 1
    /\ list[2].elapsedMs = Str(TickMs)
    /\ ~list[1].completed

\* ------------------------------------------------- toggles and their flags
\* C39: for every task of the list the checked state of .toggle-urgent and of
\* .toggle-important equals the stored urgent and important flag.
C39_TogglesShowFlags ==
    \A i \in DOMAIN list :
        /\ list[i].urgentChecked = (list[i].isUrgent = "true")
        /\ list[i].importantChecked = (list[i].isImportant = "true")

\* --------------------------------------------------------- ids are not reused
\* the task ids and the sub-step ids the elements of a list hold
IdsHeld(l) ==
    {l[i].taskId : i \in DOMAIN l} \cup
    UNION {{l[i].substeps[j].substepId : j \in DOMAIN l[i].substeps} : i \in DOMAIN l}

\* C33: the id given to a task or a sub-step when it is created is held by no
\* element that was in the list before, whether created in this session or
\* restored from the storage when the page was loaded.
C33_NoIdReuse ==
    [][/\ lastOp'.op = "addTask" => <<"task", taskIdCounter>> \notin IdsHeld(list)
       /\ lastOp'.op = "addSubstep" => <<"substep", taskIdCounter>> \notin IdsHeld(list)]_vars

\* ---------------------------------------------------------------- smart paste
\* A text is the sequence of its lines, what split('\n') makes of it, and the
\* empty string is <<>>; '\r\n' and '\n' end a line alike, which is what
\* replace(/\r\n/g, '\n') and the trim() of every line make of them.
MaxPasteLines == 4

\* the lines a pasted text is made of: empty, white space, plain text with and
\* without indentation, an ordinal and a bullet item, a dash with no space
\* after it, an ordinal with nothing after its space
PasteLines == {"", " ", "x", " x", "1. a", " 1. a", "- b", "-b", "1. "}

PasteTexts(lines, n) == {t \in [1..n -> lines] : n = 1 => t[1] # ""}

\* /^\s*(\d+\.|[-*•])\s+/ without the white space it asks for after the marker
listRegex_noSpace(s) == s \in {"1. a", " 1. a", "- b", "1. ", "1.", "-b"}

\* listRegex.test(s): /^\s*(\d+\.|[-*•])\s+/
listRegex(s) == s \in {"1. a", " 1. a", "- b", "1. "}

\* trim() of a whole text: the lines of white space at its start and at its end
\* go, the first line left loses its indentation, the last its trailing space
RECURSIVE dropBlankStart(_)
dropBlankStart(ls) ==
    IF ls = <<>> THEN <<>>
    ELSE IF trim(Head(ls)) = "" THEN dropBlankStart(Tail(ls))
    ELSE <<trimStart(Head(ls))>> \o Tail(ls)

RECURSIVE dropBlankEnd(_)
dropBlankEnd(ls) ==
    IF ls = <<>> THEN <<>>
    ELSE LET front == SubSeq(ls, 1, Len(ls) - 1)
             last == ls[Len(ls)]
         IN  IF trim(last) = "" THEN dropBlankEnd(front)
             ELSE front \o <<trimEnd(last)>>

trimText(ls) == dropBlankEnd(dropBlankStart(ls))

\* the two branches of the forEach of smartParsePaste
isSubStep(line) == trim(line) # "" /\ listRegex(trim(line))

isDescriptionLine(line) == trim(line) # "" /\ ~listRegex(trim(line))

smartParsePaste(text) ==
    LET raw == trimText(text) IN
    IF raw = <<>> THEN [description |-> <<>>, subSteps |-> <<>>]
    ELSE LET kept == SelectSeq(raw, isSubStep)
             subSteps == [k \in DOMAIN kept |-> trim(kept[k])]
             descriptionLines == SelectSeq(raw, isDescriptionLine)
         IN  [description |-> trimText(descriptionLines), subSteps |-> subSteps]

\* description.split('\n').filter(Boolean)[0] || 'New Task'
nonEmpty(s) == s # ""

pasteTitle(description) ==
    LET lines == IF description = <<>> THEN <<"">> ELSE description
        filtered == SelectSeq(lines, nonEmpty)
    IN  IF filtered = <<>> THEN "New Task" ELSE filtered[1]

\* a text is on the clipboard
InitParse ==
    \E n \in 0..MaxPasteLines : \E text \in PasteTexts(PasteLines, n) :
        PageWith(<<>>, 0, Op("clipboard", text))

\* the parse and the choice of the title the paste handler makes of the text
Parse ==
    /\ lastOp.op = "clipboard"
    /\ LET parsed == smartParsePaste(lastOp.info)
       IN  lastOp' = Op("smartParsePaste",
                        [text |-> lastOp.info, description |-> parsed.description,
                         subSteps |-> parsed.subSteps,
                         title |-> pasteTitle(parsed.description)])
    /\ UNCHANGED <<list, taskIdCounter, detached, completedCounter, uncompletedCounter,
                   storage, matrix, pendingPasteText, toasts>>

NextParse == Parse

SpecParse == InitParse /\ [][NextParse]_vars

\* a line of white space only, and a line whose first characters after its
\* indentation are an ordinal ('1.') or a bullet ('-') set off from the text of
\* the item by white space
BlankLine(line) == line \in {"", " "}

StartsWithMarker(line) == line \in {"1. a", " 1. a", "- b"}

NotBlankLine(line) == ~BlankLine(line)

OtherLine(line) == ~BlankLine(line) /\ ~StartsWithMarker(line)

Trimmed(ls) == [k \in DOMAIN ls |-> trim(ls[k])]

MaxPasteNodes == 3
\* prompts whose setTimeout has not fired yet
MaxToasts == 2

\* the lines of the texts pasted into #input-box
HandlerLines == {"x", "1. a"}

\* (text.match(/\n/g) || []).length
lineBreaks(text) == IF text = <<>> THEN 0 ELSE Len(text) - 1

\* the threshold off by one: lineBreaks > 3
pasteBranch_over3(text) ==
    IF text = <<>> \/ lineBreaks(text) = 0 THEN "default"
    ELSE IF lineBreaks(text) > 3 THEN "prompt"
    ELSE "apply"

\* the branch the paste handler takes: none (the browser's own paste, into the
\* input box) when the text is empty or has no line break, the prompt, or the
\* immediate creation
pasteBranch(text) ==
    IF text = <<>> \/ lineBreaks(text) = 0 THEN "default"
    ELSE IF lineBreaks(text) >= 3 THEN "prompt"
    ELSE "apply"

\* addSubstepsToTask(taskLi, subSteps): the task, and taskIdCounter after it
addSubstepsToTask(taskLi, subSteps, counter) ==
    IF subSteps = <<>> THEN [li |-> taskLi, counter |-> counter]
    ELSE LET created == [k \in DOMAIN subSteps |->
                            [createSubstepElement(subSteps[k]) EXCEPT
                                !.substepId = <<"substep", counter + k - 1>>]]
         IN  [li |-> updateSubstepSummary([taskLi EXCEPT !.substeps = @ \o created]),
              counter |-> counter + Len(subSteps)]

\* createTaskWithSubsteps(title, description, subSteps): the list, and
\* taskIdCounter after it
createTaskWithSubsteps(l, title, description, subSteps, counter) ==
    IF title = "" THEN [list |-> l, counter |-> counter]
    ELSE LET li == createTaskElement(title, "medium", <<>>)
             described == IF description # <<>> THEN [li EXCEPT !.desc = description]
                          ELSE li
             a == attachTaskEventHandlers(described, counter)
             s == addSubstepsToTask(a.li, subSteps, a.counter)
         IN  [list |-> sortByUrgency(Append(l, s.li)), counter |-> s.counter]

\* the parse, the title and the creation, as the prompt's onConfirm and the
\* else branch of the paste handler both make them
createFromText(l, text, counter) ==
    LET parsed == smartParsePaste(text)
    IN  createTaskWithSubsteps(l, pasteTitle(parsed.description), parsed.description,
                               parsed.subSteps, counter)

\* a prompt that leaves the one in the body where it is
showSmartPasteToast_keepExisting(ts) == Append(ts, [attached |-> TRUE])

\* showSmartPasteToast: the toast that is in the body is removed, a new one is
\* appended to the body and its setTimeout(cleanup, 5000) is registered
showSmartPasteToast(ts) ==
    LET existing == {k \in DOMAIN ts : ts[k].attached}
        first == CHOOSE k \in existing : \A m \in existing : k <= m
        removed == IF existing = {} THEN ts ELSE [ts EXCEPT ![first].attached = FALSE]
    IN  Append(removed, [attached |-> TRUE])

\* cleanup() of toast k
cleanup(ts, k) == [ts EXCEPT ![k].attached = FALSE]

\* paste of `text` into #input-box
Paste(text) ==
    LET branch == pasteBranch(text) IN
    /\ lastOp' = Op("paste", text)
    /\ IF branch = "prompt"
       THEN /\ Len(toasts) < MaxToasts
            /\ pendingPasteText' = text
            /\ toasts' = showSmartPasteToast(toasts)
            /\ UNCHANGED <<list, taskIdCounter, detached, completedCounter,
                           uncompletedCounter, storage, matrix>>
       ELSE IF branch = "apply"
       THEN LET c == createFromText(list, text, taskIdCounter)
            IN  /\ NodeCount(c.list) <= MaxPasteNodes
                /\ list' = c.list
                /\ taskIdCounter' = c.counter
                /\ completedCounter' = updateCounters(c.list).completed
                /\ uncompletedCounter' = updateCounters(c.list).uncompleted
                /\ storage' = saveTasks(c.list)
                /\ matrix' = renderMatrixView(c.list)
                /\ UNCHANGED <<detached, pendingPasteText, toasts>>
       ELSE UNCHANGED <<list, taskIdCounter, detached, completedCounter,
                        uncompletedCounter, storage, matrix, pendingPasteText, toasts>>

\* click on toast k, which is in the body: cleanup(), then onConfirm()
ToastClick(k) ==
    /\ toasts[k].attached
    /\ LET c == createFromText(list, pendingPasteText, taskIdCounter)
       IN  /\ NodeCount(c.list) <= MaxPasteNodes
           /\ list' = c.list
           /\ taskIdCounter' = c.counter
           /\ completedCounter' = updateCounters(c.list).completed
           /\ uncompletedCounter' = updateCounters(c.list).uncompleted
           /\ storage' = saveTasks(c.list)
           /\ matrix' = renderMatrixView(c.list)
    /\ toasts' = cleanup(toasts, k)
    /\ pendingPasteText' = <<>>
    /\ lastOp' = Op("toastClick", pendingPasteText)
    /\ UNCHANGED detached

\* the oldest setTimeout(cleanup, 5000) fires: equal delays fire in the order
\* they were registered in
ToastTimeout ==
    /\ toasts # <<>>
    /\ toasts' = Tail(cleanup(toasts, 1))
    /\ lastOp' = Op("toastTimeout", <<>>)
    /\ UNCHANGED <<list, taskIdCounter, detached, completedCounter, uncompletedCounter,
                   storage, matrix, pendingPasteText>>

\* the page is open with no task in it and nothing pasted yet
InitPaste == PageWith(<<>>, 0, Op("reload", <<>>))

NextPaste ==
    \/ \E n \in 0..MaxPasteLines : \E text \in PasteTexts(HandlerLines, n) : Paste(text)
    \/ \E k \in DOMAIN toasts : ToastClick(k)
    \/ ToastTimeout

SpecPaste == InitPaste /\ [][NextPaste]_vars

\* the toasts that are in the body
Attached(ts) == {k \in DOMAIN ts : ts[k].attached}

\* the texts of the sub-steps of a task
StepTexts(t) == [j \in DOMAIN t.substeps |-> t.substeps[j].text]

\* list l2 is list l1 with one task more, whose sub-steps are the marked lines
\* of the text
OneTaskMore(l1, l2, text) ==
    \E i \in DOMAIN l2 :
        /\ RemoveAt(l2, i) = l1
        /\ StepTexts(l2[i]) = Trimmed(SelectSeq(text, StartsWithMarker))

\* one step of the page, for a paste handler that applies at once the texts
\* with at least `low` and fewer than 3 line breaks
PasteStep(low) ==
    /\ (lastOp'.op = "paste" /\ lineBreaks(lastOp'.info) >= 3) =>
           /\ list' = list
           /\ Attached(toasts') # {}
    /\ (lastOp'.op = "toastTimeout" /\ 1 \in Attached(toasts)) =>
           /\ list' = list
           /\ Attached(toasts') = {}
    /\ lastOp'.op = "toastTimeout" => list' = list
    /\ (lastOp'.op = "paste" /\ lineBreaks(lastOp'.info) \in low..2) =>
           OneTaskMore(list, list', lastOp'.info)
    /\ list' # list =>
           \/ lastOp'.op = "toastClick" /\ Attached(toasts) # {}
           \/ lastOp'.op = "paste" /\ lineBreaks(lastOp'.info) < 3

BuiltFrom(l1, l2, text) ==
    \E i \in DOMAIN l2 :
        /\ RemoveAt(l2, i) = l1
        /\ StepTexts(l2[i]) = Trimmed(SelectSeq(text, StartsWithMarker))
        /\ Trimmed(l2[i].desc) = Trimmed(SelectSeq(text, OtherLine))

PromptPaste == lastOp'.op = "paste" /\ lineBreaks(lastOp'.info) >= 3

\* C40: at most one prompt is in the body; the text a confirmation will use is
\* the text of the latest paste that raised a prompt, from that paste until the
\* confirmation; a confirmation adds exactly one task, made of that text; and
\* the timeout of a prompt that was replaced leaves the later prompt in the body.
C40_OnePromptLatestText ==
    [][/\ Cardinality(Attached(toasts')) <= 1
       /\ PromptPaste => pendingPasteText' = lastOp'.info
       /\ (~PromptPaste /\ lastOp'.op # "toastClick") =>
              pendingPasteText' = pendingPasteText
       /\ lastOp'.op = "toastClick" =>
              /\ lastOp'.info = pendingPasteText
              /\ BuiltFrom(list, list', pendingPasteText)
              /\ Attached(toasts') = {}
       /\ (lastOp'.op = "toastTimeout" /\ 1 \notin Attached(toasts)) =>
              Cardinality(Attached(toasts')) = Cardinality(Attached(toasts))]_vars

\* the timeout of a replaced prompt has fired and the later prompt is still in
\* the body, with the text of the later paste to be used
C40_Witness ==
    /\ lastOp.op = "toastTimeout"
    /\ Attached(toasts) = {1}
    /\ lineBreaks(pendingPasteText) = 3
    /\ list = <<>>

\* ------------------------------------------- re-sorting after a key changes
\* the text pasted where tasks are also added, toggled and given deadlines: two
\* lines, so it is applied in the paste handler and makes a task of its own
ResortTexts == {<<"x", "x">>}

NextResort ==
    \/ \E text \in MatrixTexts : AddTask(text)
    \/ \E i \in DOMAIN list : ToggleUrgent(i)
    \/ \E i \in DOMAIN list : ToggleImportant(i)
    \/ \E i \in DOMAIN list : \E d \in DeadlineInputs : ChangeDeadline(i, d)
    \/ \E text \in ResortTexts : Paste(text)

SpecResort == Init /\ [][NextResort]_vars

ScoreOrdered(l) == \A a, b \in DOMAIN l : a < b => Score(l[a]) >= Score(l[b])

UrgencyOrdered(l) ==
    \A a, b \in DOMAIN l :
        a < b =>
            /\ Weight(l[a].priority) >= Weight(l[b].priority)
            /\ Weight(l[a].priority) = Weight(l[b].priority) => ~DeadlineBefore(l[b], l[a])

BeforeUnload ==
    /\ lastOp.op \notin {"stored", "beforeunload"}
    /\ storage' = saveTasks(list)
    /\ lastOp' = Op("beforeunload", IF lastOp.op = "load" THEN lastOp.info ELSE <<>>)
    /\ UNCHANGED <<list, taskIdCounter, detached, completedCounter, uncompletedCounter,
                   matrix, pendingPasteText, toasts>>

PageOpen == lastOp.op \notin {"stored", "beforeunload"}

NextUnload ==
    \/ Startup
    \/ BeforeUnload
    \/ PageOpen /\ \E text \in MatrixTexts : AddTask(text)
    \/ PageOpen /\ \E i \in DOMAIN list : DeleteTask(i)

SpecUnload == InitLoad /\ [][NextUnload]_vars

\* the task records a stored item holds: the elements of its array that are
\* objects
RecordCount(raw) ==
    IF IsArray(raw) THEN Cardinality({k \in DOMAIN raw[1] : ~IsNull(raw[1][k])}) ELSE 0

\* C36: the save the observer makes when loadTasks has filled the list, and the
\* save of beforeunload when nothing was done since the load, leave in the
\* storage at least the task records that were stored before the load.
C36_SaveKeepsRecords ==
    [][/\ lastOp'.op = "load" => RecordCount(storage') >= RecordCount(storage)
       /\ (lastOp.op = "load" /\ lastOp'.op = "beforeunload") =>
              RecordCount(storage') >= RecordCount(lastOp.info)]_vars

====
